---------------------------- MODULE Spec2Model ----------------------------
(***************************************************************************)
(* A model of the OTLP exporter of opentelemetry-python: the gRPC sender   *)
(* with its retry loop, the HTTP sender, the exporter facade that builds   *)
(* and drives them, and the protobuf encoders that group a batch by        *)
(* resource and instrumentation library.                                    *)
(***************************************************************************)
EXTENDS Integers, Sequences, FiniteSets, TLC

VARIABLES
    g_pc,           \* GrpcSender.send: "idle" | "for" | "try" | "sleep"
    g_n,            \* the exponent n held by the expo generator
    g_delay,        \* the local variable delay of send
    g_attempts,     \* Export calls made by the current send call
    g_slept,        \* a sleep has happened since the last Export call
    g_lastSleep,    \* the argument of the last sleep() call
    g_lastOutcome,  \* what the last Export call did
    g_result,       \* what the last send call returned
    g_calls,        \* send calls started on this sender
    g_sleeps,       \* sleeps of the current send call
    g_hinted,       \* a sleep of the current send call used a retry-delay hint
    g_rpc,          \* the last Export call of the current send call
    enc_kind,       \* the encoder last called: "none" | "span" | "metric"
    enc_input,      \* the batch it was given
    enc_output,     \* what encode returned, or the exception it raised
    e_state,        \* OTLPExporter: "none" | "ready" | the exception of __init__
    e_type,         \* self._type: "SPAN" | "METRIC"
    e_protocol,     \* the sender built: "grpc" | "http/protobuf"
    e_sender,       \* the arguments __init__ handed to the sender
    e_given,        \* the arguments and the environment __init__ was given
    e_pc,           \* export: "idle" | "sending"
    e_result,       \* what the last export call returned, or raised
    h_self,         \* HttpSender: the fields set by __init__
    h_args,         \* the arguments of the last HttpSender.send call
    h_outcome,      \* what requests.post did in that call
    h_posts,        \* the requests.post calls of that call, in order
    h_result,       \* what that call returned, or raised
    h_log,          \* the error it logged
    z_config,       \* zipkin Encoder: the argument given to __init__
    z_self,         \* the encoder object built by __init__
    z_call,         \* the zipkin encoder call made: method and argument
    z_return,       \* what that call returned
    z_log           \* the warnings it logged

gvars == <<g_pc, g_n, g_delay, g_attempts, g_slept, g_lastSleep,
           g_lastOutcome, g_result, g_calls, g_sleeps, g_hinted, g_rpc>>

encvars == <<enc_kind, enc_input, enc_output>>

evars == <<e_state, e_type, e_protocol, e_sender, e_given, e_pc, e_result>>

hvars == <<h_self, h_args, h_outcome, h_posts, h_result, h_log>>

zvars == <<z_config, z_self, z_call, z_return, z_log>>
vars == <<gvars, encvars, evars, hvars, zvars>>

(***************************************************************************)
(* Bounds of the model.                                                    *)
(***************************************************************************)
MaxCalls == 2
\* g_attempts stops counting here (the code makes at most 10 attempts).
MaxAttempts == 12
\* The longest batch handed to an encoder.
MaxBatch == 3
\* The longest payload handed to HttpSender.send directly.
MaxPayload == 2
\* The longest batch handed to OTLPExporter.export.
MaxExportBatch == 1

(***************************************************************************)
(* grpc.StatusCode and the retryable subset.                               *)
(***************************************************************************)
StatusCode ==
    {"OK", "CANCELLED", "UNKNOWN", "INVALID_ARGUMENT", "DEADLINE_EXCEEDED",
     "NOT_FOUND", "ALREADY_EXISTS", "PERMISSION_DENIED", "RESOURCE_EXHAUSTED",
     "FAILED_PRECONDITION", "ABORTED", "OUT_OF_RANGE", "UNIMPLEMENTED",
     "INTERNAL", "UNAVAILABLE", "DATA_LOSS", "UNAUTHENTICATED"}

RETRYABLE_ERROR_CODES ==
    {"CANCELLED", "DEADLINE_EXCEEDED", "PERMISSION_DENIED", "UNAUTHENTICATED",
     "RESOURCE_EXHAUSTED", "ABORTED", "OUT_OF_RANGE", "UNAVAILABLE",
     "DATA_LOSS"}

(***************************************************************************)
(* A duration in seconds and nanoseconds: the value seconds + nanos/1e9.   *)
(***************************************************************************)
Seconds(s) == [seconds |-> s, nanos |-> 0]

\* The trailing metadata entry "google.rpc.retryinfo-bin": absent, or a
\* RetryInfo message with its retry_delay.
NoRetryInfo == [present |-> FALSE, seconds |-> 0, nanos |-> 0]

RetryInfos ==
    { [present |-> TRUE, seconds |-> 0, nanos |-> 0],
      [present |-> TRUE, seconds |-> 1, nanos |-> 500000000],
      [present |-> TRUE, seconds |-> 2, nanos |-> 0],
      [present |-> TRUE, seconds |-> 900, nanos |-> 0] }

\* What one Export call can do: return, or raise an RpcError with a status
\* code and trailing metadata.
NoOutcome == [kind |-> "none", code |-> "OK", retry_info |-> NoRetryInfo]

ExportOutcomes ==
    { [kind |-> "returned", code |-> "OK", retry_info |-> NoRetryInfo] }
    \cup
    [kind : {"RpcError"}, code : StatusCode,
     retry_info : RetryInfos \cup {NoRetryInfo}]

(***************************************************************************)
(* backoff.expo(base=2, factor=1, max_value): the value yielded when the   *)
(* generator holds exponent n, and the exponent it holds afterwards.       *)
(***************************************************************************)
expo_max_value == 900

expo_uncapped(n, max_value) ==
    IF 2 ^ n < max_value THEN 2 ^ n ELSE 2 ^ (n - 1)

expo_from_2(n, max_value) ==
    IF 2 ^ (n + 1) < max_value THEN 2 ^ (n + 1) ELSE max_value

expo(n, max_value) ==
    IF 2 ^ n < max_value THEN 2 ^ n ELSE max_value

expo_next_stays(n, max_value) == n

expo_next(n, max_value) ==
    IF 2 ^ n < max_value THEN n + 1 ELSE n

(***************************************************************************)
(* GrpcSender.send, the except branch and the return after Export: what    *)
(* the call does next ("True", "False" or "sleep") and the delay slept.    *)
(***************************************************************************)
retry_delay(retry_info) ==
    [seconds |-> retry_info.seconds, nanos |-> retry_info.nanos]

after_Export_ok_fails(outcome, delay) ==
    IF outcome.kind = "returned"
    THEN [next |-> "True", delay |-> delay]
    ELSE IF outcome.code \in RETRYABLE_ERROR_CODES
         THEN [next |-> "sleep",
               delay |-> IF outcome.retry_info.present
                         THEN retry_delay(outcome.retry_info)
                         ELSE delay]
         ELSE [next |-> "False", delay |-> delay]

after_Export_no_hint(outcome, delay) ==
    IF outcome.kind = "returned"
    THEN [next |-> "True", delay |-> delay]
    ELSE IF outcome.code \in RETRYABLE_ERROR_CODES
         THEN [next |-> "sleep", delay |-> delay]
         ELSE IF outcome.code = "OK"
              THEN [next |-> "True", delay |-> delay]
              ELSE [next |-> "False", delay |-> delay]

after_Export(outcome, delay) ==
    IF outcome.kind = "returned"
    THEN [next |-> "True", delay |-> delay]
    ELSE IF outcome.code \in RETRYABLE_ERROR_CODES
         THEN [next |-> "sleep",
               delay |-> IF outcome.retry_info.present
                         THEN retry_delay(outcome.retry_info)
                         ELSE delay]
         ELSE IF outcome.code = "OK"
              THEN [next |-> "True", delay |-> delay]
              ELSE [next |-> "False", delay |-> delay]

(***************************************************************************)
(* GrpcSender.send, step by step.                                          *)
(***************************************************************************)
\* An Export call: the stub it is made on, the class of the request, and
\* the metadata and timeout passed.
Rpc(stub, request, metadata, timeout) ==
    [stub |-> stub, request |-> request, metadata |-> metadata,
     timeout |-> timeout]

NoRpc == Rpc("none", "none", [none |-> TRUE, dict |-> <<>>], 0)

\* The class of the request handed to send: what the encoder of the
\* exporter returned, an ExportTraceServiceRequest for a sender used on
\* its own.
request_class(kind) ==
    IF kind = "metric"
    THEN "ExportMetricsServiceRequest"
    ELSE "ExportTraceServiceRequest"

\* TraceServiceStub(self._channel).Export(request=resource_spans,
\*     metadata=self._headers, timeout=self._timeout)
Export_call(self, kind) ==
    Rpc("TraceServiceStub", request_class(kind), self.headers, self.timeout)
GrpcInit ==
    /\ g_pc = "idle"
    /\ g_n = 0
    /\ g_delay = Seconds(0)
    /\ g_attempts = 0
    /\ g_slept = FALSE
    /\ g_lastSleep = Seconds(0)
    /\ g_lastOutcome = NoOutcome
    /\ g_result = "none"
    /\ g_calls = 0
    /\ g_sleeps = 0
    /\ g_hinted = FALSE
    /\ g_rpc = NoRpc

\* The entry of send with the generator of the call before kept.
GrpcSender_send_enter_keeps_generator ==
    /\ g_pc = "idle"
    /\ g_pc' = "for"
    /\ g_attempts' = 0
    /\ g_slept' = FALSE
    /\ g_lastOutcome' = NoOutcome
    /\ g_result' = "none"
    /\ g_calls' = g_calls + 1
    /\ g_sleeps' = 0
    /\ g_hinted' = FALSE
    /\ g_rpc' = NoRpc
    /\ UNCHANGED <<g_n, g_delay, g_lastSleep>>

\* The entry of send: a fresh expo generator is created.
GrpcSender_send_enter ==
    /\ g_pc = "idle"
    /\ g_pc' = "for"
    /\ g_n' = 0
    /\ g_attempts' = 0
    /\ g_slept' = FALSE
    /\ g_lastOutcome' = NoOutcome
    /\ g_result' = "none"
    /\ g_calls' = g_calls + 1
    /\ g_sleeps' = 0
    /\ g_hinted' = FALSE
    /\ g_rpc' = NoRpc
    /\ UNCHANGED <<g_delay, g_lastSleep>>

\* send is called on a sender.
GrpcSender_send ==
    /\ g_calls < MaxCalls
    /\ GrpcSender_send_enter
    /\ UNCHANGED <<encvars, evars, hvars>>
    /\ UNCHANGED zvars

\* The head of the for loop: the generator yields the next delay, and the
\* ceiling ends the call.
GrpcSender_send_for ==
    /\ g_pc = "for"
    /\ g_delay' = Seconds(expo(g_n, expo_max_value))
    /\ g_n' = expo_next(g_n, expo_max_value)
    /\ IF g_delay' = Seconds(expo_max_value)
       THEN g_pc' = "idle" /\ g_result' = "False"
       ELSE g_pc' = "try" /\ UNCHANGED g_result
    /\ UNCHANGED <<g_attempts, g_slept, g_lastSleep, g_lastOutcome, g_calls,
                   g_sleeps, g_hinted, g_rpc>>
    /\ UNCHANGED <<encvars, evars, hvars>>
    /\ UNCHANGED zvars

\* The try block: one Export call and the handling of what it did.
GrpcSender_send_Export ==
    /\ g_pc = "try"
    /\ \E outcome \in ExportOutcomes :
         LET r == after_Export(outcome, g_delay) IN
           /\ g_lastOutcome' = outcome
           /\ g_delay' = r.delay
           /\ g_hinted' = (g_hinted \/ (r.next = "sleep"
                                         /\ outcome.kind = "RpcError"
                                         /\ outcome.retry_info.present))
           /\ IF r.next = "sleep"
              THEN g_pc' = "sleep" /\ UNCHANGED g_result
              ELSE g_pc' = "idle" /\ g_result' = r.next
    /\ g_attempts' = IF g_attempts < MaxAttempts
                     THEN g_attempts + 1 ELSE g_attempts
    /\ g_slept' = FALSE
    /\ g_rpc' = Export_call(e_sender, enc_kind)
    /\ UNCHANGED <<g_n, g_lastSleep, g_calls, g_sleeps>>
    /\ UNCHANGED <<encvars, evars, hvars>>
    /\ UNCHANGED zvars

\* sleep(delay); continue
GrpcSender_send_sleep ==
    /\ g_pc = "sleep"
    /\ g_lastSleep' = g_delay
    /\ g_slept' = TRUE
    /\ g_pc' = "for"
    /\ g_sleeps' = IF g_sleeps < MaxAttempts
                   THEN g_sleeps + 1 ELSE g_sleeps
    /\ UNCHANGED <<g_n, g_delay, g_attempts, g_lastOutcome, g_result, g_calls,
                   g_hinted, g_rpc>>
    /\ UNCHANGED <<encvars, evars, hvars>>
    /\ UNCHANGED zvars

GrpcStep ==
    \/ GrpcSender_send_for
    \/ GrpcSender_send_Export
    \/ GrpcSender_send_sleep

NextGrpc ==
    \/ GrpcSender_send
    \/ GrpcStep

(***************************************************************************)
(* SDK data handed to the encoders.                                        *)
(***************************************************************************)
\* An attribute value with its Python type.
AttrValue(type, val) == [type |-> type, val |-> val]

\* A Resource: its attributes and the order in which its dict holds them.
\* Two Resource objects may hold the same attributes in a different order.
ResourceA1 ==
    [attributes |-> [k \in {"service.name", "host"} |->
                       IF k = "host" THEN AttrValue("str", "h1")
                                     ELSE AttrValue("str", "a")],
     order |-> <<"service.name", "host">>]

ResourceA2 ==
    [attributes |-> ResourceA1.attributes,
     order |-> <<"host", "service.name">>]

ResourceB ==
    [attributes |-> [k \in {"service.name"} |-> AttrValue("str", "b")],
     order |-> <<"service.name">>]

Resources == {ResourceA1, ResourceA2, ResourceB}

\* A Resource with an attribute whose value no encoder knows.
ResourceC ==
    [attributes |-> [k \in {"service.name", "bad", "host"} |->
                       IF k = "bad" THEN AttrValue("NoneType", "")
                       ELSE IF k = "host" THEN AttrValue("str", "h2")
                                          ELSE AttrValue("str", "c")],
     order |-> <<"service.name", "bad", "host">>]

\* The attributes of a span, an event or a link: a dict, with its order.
Attributes(attributes, order) == [attributes |-> attributes, order |-> order]

NoAttributes == Attributes([k \in {} |-> AttrValue("str", "")], <<>>)

GoodAttributes ==
    Attributes([k \in {"a", "b"} |->
                   IF k = "a" THEN AttrValue("str", "x")
                              ELSE AttrValue("int", "1")],
               <<"a", "b">>)

MixedAttributes ==
    Attributes([k \in {"a", "bad", "b"} |->
                   IF k = "a" THEN AttrValue("str", "x")
                   ELSE IF k = "b" THEN AttrValue("int", "1")
                                   ELSE AttrValue("NoneType", "")],
               <<"a", "bad", "b">>)

BadAttributes ==
    Attributes([k \in {"bad"} |-> AttrValue("NoneType", "")], <<"bad">>)

Event(name, attributes) == [name |-> name, attributes |-> attributes]

Link(span_id, attributes) == [span_id |-> span_id, attributes |-> attributes]

\* Resource.__eq__: the attributes are equal.
Resource_eq(a, b) == a.attributes = b.attributes

\* An InstrumentationInfo, Python's None, or a str.
InstrumentationInfo(name, version) ==
    [type |-> "InstrumentationInfo", name |-> name, version |-> version]

PyNone == [type |-> "NoneType", name |-> "", version |-> ""]

PyStr(s) == [type |-> "str", name |-> s, version |-> ""]

InstrumentationInfos ==
    {PyNone, InstrumentationInfo("libA", "1.0"),
     InstrumentationInfo("libB", "2.0")}

\* x or y, for an InstrumentationInfo (always true) or None.
Or(x, y) == IF x.type = "NoneType" THEN y ELSE x

\* The spans of a batch carry their position as span id.
SpanShapes ==
    [resource : Resources, instrumentation_info : InstrumentationInfos,
     attributes : {NoAttributes}, events : {<<>>}, links : {<<>>}]

\* Spans with attributes, events and links.
AttributeSpanShapes ==
    [resource : {ResourceB, ResourceC},
     instrumentation_info : {InstrumentationInfo("libA", "1.0")},
     attributes : {NoAttributes, GoodAttributes, MixedAttributes,
                   BadAttributes},
     events : {<<>>, <<Event("e1", MixedAttributes)>>,
               <<Event("e1", GoodAttributes), Event("e2", BadAttributes)>>},
     links : {<<>>, <<Link(7, MixedAttributes)>>}]

SpanBatch(shapes) ==
    [i \in 1..Len(shapes) |->
        [span_id |-> i,
         resource |-> shapes[i].resource,
         instrumentation_info |-> shapes[i].instrumentation_info,
         attributes |-> shapes[i].attributes,
         events |-> shapes[i].events,
         links |-> shapes[i].links]]

\* The spans used in batches of several spans.
BatchSpanShapes == {s \in SpanShapes : s.instrumentation_info # PyNone}

\* The batches of at most max spans, and every span alone.
SpanBatches(max) ==
    UNION { {SpanBatch(f) : f \in [1..n -> BatchSpanShapes]} : n \in 0..max }
    \cup
    {SpanBatch(<<s>>) : s \in SpanShapes}

\* An export record: the instrument (type, value type, name), the
\* aggregator with its checkpoint and timestamps, the labels, the resource
\* and the meter's instrumentation info.
InstrumentTypes ==
    {"Counter", "UpDownCounter", "SumObserver", "UpDownSumObserver",
     "ValueObserver", "ValueRecorder"}

AggregatorTypes ==
    {"SumAggregator", "MinMaxSumCountAggregator", "HistogramAggregator",
     "LastValueAggregator", "ValueObserverAggregator"}

MetricKinds ==
    [instrument : InstrumentTypes, value_type : {"int", "float"},
     aggregator : AggregatorTypes]

\* The kinds of the records used in batches of several records.
BatchMetricKinds ==
    { [instrument |-> "Counter", value_type |-> "int",
       aggregator |-> "SumAggregator"],
      [instrument |-> "ValueRecorder", value_type |-> "int",
       aggregator |-> "MinMaxSumCountAggregator"],
      [instrument |-> "ValueObserver", value_type |-> "float",
       aggregator |-> "HistogramAggregator"] }

MetricShapes(kinds, resources) ==
    [kind : kinds, resource : resources,
     instrumentation_info : {PyNone, InstrumentationInfo("libA", "1.0")}]

MetricBatch(shapes) ==
    [i \in 1..Len(shapes) |->
        [instrument |-> [type |-> shapes[i].kind.instrument,
                         value_type |-> shapes[i].kind.value_type,
                         name |-> i,
                         instrumentation_info |->
                             shapes[i].instrumentation_info],
         aggregator |-> [type |-> shapes[i].kind.aggregator,
                         checkpoint |-> 111,
                         checkpoint_last |-> 7,
                         first_timestamp |-> 100,
                         initial_checkpoint_timestamp |-> 120,
                         last_update_timestamp |-> 150],
         labels |-> << <<"label1_key", "label1_val">> >>,
         resource |-> shapes[i].resource]]

\* The records used in batches of several records.
BatchMetricShapes ==
    {s \in MetricShapes(BatchMetricKinds, {ResourceA1, ResourceB}) :
        \/ s.instrumentation_info # PyNone
        \/ s.kind.instrument = "Counter" /\ s.resource = ResourceA1}

\* The batches of at most max records, and every kind of record alone.
MetricBatches(max) ==
    UNION { {MetricBatch(f) :
               f \in [1..n -> BatchMetricShapes]} :
            n \in 0..max }
    \cup
    {MetricBatch(<<s>>) : s \in MetricShapes(MetricKinds, Resources)}

(***************************************************************************)
(* encoder/protobuf.py: the helpers shared by the two encoders.            *)
(***************************************************************************)
\* _encode_key_value: the KeyValue, or the exception for a value of a type
\* it does not know.
encode_key_value(key, value) ==
    IF value.type \in {"bool", "str", "int", "float"}
    THEN [raised |-> FALSE, key |-> key, value |-> value]
    ELSE [raised |-> TRUE, key |-> key, value |-> value]

\* encode_attributes_from with an exception ending the loop.
RECURSIVE encode_attributes_until(_, _, _)
encode_attributes_until(attributes, order, i) ==
    IF i > Len(order)
    THEN <<>>
    ELSE LET kv == encode_key_value(order[i], attributes[order[i]]) IN
           IF kv.raised THEN <<>>
           ELSE <<[key |-> kv.key, value |-> kv.value]>>
                \o encode_attributes_until(attributes, order, i + 1)

\* The loop over attributes.items() with its try/except, from item i on:
\* the key-values that encode, in the dict's order.
RECURSIVE encode_attributes_from(_, _, _)
encode_attributes_from(attributes, order, i) ==
    IF i > Len(order)
    THEN <<>>
    ELSE LET kv == encode_key_value(order[i], attributes[order[i]]) IN
           (IF kv.raised THEN <<>>
            ELSE <<[key |-> kv.key, value |-> kv.value]>>)
           \o encode_attributes_from(attributes, order, i + 1)

\* _encode_resource: the attributes that encode, in the dict's order.
encode_resource(sdk_resource) ==
    [attributes |->
        encode_attributes_from(sdk_resource.attributes, sdk_resource.order, 1)]

\* _encode_instrumentation_library: empty for None, else the name and
\* version attributes of its argument (a str has neither).
encode_instrumentation_library(sdk_instrumentation_info) ==
    IF sdk_instrumentation_info.type = "NoneType"
    THEN [raised |-> "", name |-> "", version |-> ""]
    ELSE IF sdk_instrumentation_info.type = "InstrumentationInfo"
         THEN [raised |-> "",
               name |-> sdk_instrumentation_info.name,
               version |-> sdk_instrumentation_info.version]
         ELSE [raised |-> "AttributeError", name |-> "", version |-> ""]

(***************************************************************************)
(* The dict of dicts built by the first loop of an encoder, in insertion   *)
(* order: <<[key |-> resource, value |-> <<[key |-> instrumentation,       *)
(* value |-> <<record, ...>>], ...>>], ...>>.                              *)
(***************************************************************************)
\* InstrumentationInfo.__eq__ (and the equality of None and of str when the
\* key is one)
InstrumentationInfo_eq(a, b) == a = b

\* ResourceIndex looking at the last key only.
ResourceIndex_last(entries, key) ==
    IF entries # <<>> /\ Resource_eq(entries[Len(entries)].key, key)
    THEN Len(entries)
    ELSE 0

\* The position of the resource among the keys, 0 when it is not a key.
ResourceIndex(entries, key) ==
    IF \E i \in 1..Len(entries) : Resource_eq(entries[i].key, key)
    THEN CHOOSE i \in 1..Len(entries) : Resource_eq(entries[i].key, key)
    ELSE 0

\* The same for an instrumentation key.
InstrumentationIndex(entries, key) ==
    IF \E i \in 1..Len(entries) : InstrumentationInfo_eq(entries[i].key, key)
    THEN CHOOSE i \in 1..Len(entries) :
             InstrumentationInfo_eq(entries[i].key, key)
    ELSE 0

\* DictInsert with the elif branch replacing the resource's dict.
DictInsert_replaces(groups, sdk_resource, sdk_instrumentation, pb2) ==
    LET r == ResourceIndex(groups, sdk_resource) IN
      IF r = 0
      THEN Append(groups,
                  [key |-> sdk_resource,
                   value |-> <<[key |-> sdk_instrumentation,
                                value |-> <<pb2>>]>>])
      ELSE LET k == InstrumentationIndex(groups[r].value, sdk_instrumentation) IN
             IF k = 0
             THEN [groups EXCEPT ![r].value =
                      <<[key |-> sdk_instrumentation, value |-> <<pb2>>]>>]
             ELSE [groups EXCEPT ![r].value[k].value = Append(@, pb2)]

\* DictInsert with a new resource put before the others.
DictInsert_front(groups, sdk_resource, sdk_instrumentation, pb2) ==
    LET r == ResourceIndex(groups, sdk_resource) IN
      IF r = 0
      THEN <<[key |-> sdk_resource,
              value |-> <<[key |-> sdk_instrumentation,
                           value |-> <<pb2>>]>>]>> \o groups
      ELSE LET k == InstrumentationIndex(groups[r].value, sdk_instrumentation) IN
             IF k = 0
             THEN [groups EXCEPT ![r].value =
                      Append(@, [key |-> sdk_instrumentation,
                                 value |-> <<pb2>>])]
             ELSE [groups EXCEPT ![r].value[k].value = Append(@, pb2)]

DictInsert(groups, sdk_resource, sdk_instrumentation, pb2) ==
    LET r == ResourceIndex(groups, sdk_resource) IN
      IF r = 0
      THEN Append(groups,
                  [key |-> sdk_resource,
                   value |-> <<[key |-> sdk_instrumentation,
                                value |-> <<pb2>>]>>])
      ELSE LET k == InstrumentationIndex(groups[r].value, sdk_instrumentation) IN
             IF k = 0
             THEN [groups EXCEPT ![r].value =
                      Append(@, [key |-> sdk_instrumentation,
                                 value |-> <<pb2>>])]
             ELSE [groups EXCEPT ![r].value[k].value = Append(@, pb2)]

\* The second loop: one node per resource, one child per instrumentation
\* key; an exception of _encode_instrumentation_library ends the call.
EncodeLibraries(sdk_instrumentations) ==
    [k \in 1..Len(sdk_instrumentations) |->
        [instrumentation_library |->
            encode_instrumentation_library(sdk_instrumentations[k].key),
         records |-> sdk_instrumentations[k].value]]

EncodeNodes(groups) ==
    [r \in 1..Len(groups) |->
        [resource |-> encode_resource(groups[r].key),
         libraries |-> EncodeLibraries(groups[r].value)]]

NodesRaise(nodes) ==
    \E r \in 1..Len(nodes) : \E k \in 1..Len(nodes[r].libraries) :
        nodes[r].libraries[k].instrumentation_library.raised # ""

EncodeResult(groups) ==
    LET nodes == EncodeNodes(groups) IN
      IF NodesRaise(nodes)
      THEN [raised |-> "AttributeError", nodes |-> <<>>]
      ELSE [raised |-> "", nodes |-> nodes]

(***************************************************************************)
(* encoder/span/protobuf.py                                                *)
(***************************************************************************)
\* _encode_attributes: None for no attributes, else those that encode.
encode_attributes(sdk_attributes) ==
    IF sdk_attributes.order = <<>>
    THEN [none |-> TRUE, items |-> <<>>]
    ELSE [none |-> FALSE,
          items |-> encode_attributes_from(sdk_attributes.attributes,
                                           sdk_attributes.order, 1)]

\* _encode_events: None for no events, else one Event for each event, with
\* those of its attributes that encode.
encode_events(sdk_events) ==
    IF sdk_events = <<>>
    THEN [none |-> TRUE, items |-> <<>>]
    ELSE [none |-> FALSE,
          items |->
            [e \in 1..Len(sdk_events) |->
                [name |-> sdk_events[e].name,
                 attributes |->
                    encode_attributes_from(sdk_events[e].attributes.attributes,
                                           sdk_events[e].attributes.order, 1)]]]

\* _encode_links
encode_links(sdk_links) ==
    IF sdk_links = <<>>
    THEN [none |-> TRUE, items |-> <<>>]
    ELSE [none |-> FALSE,
          items |->
            [l \in 1..Len(sdk_links) |->
                [span_id |-> sdk_links[l].span_id,
                 attributes |->
                    encode_attributes_from(sdk_links[l].attributes.attributes,
                                           sdk_links[l].attributes.order, 1)]]]

encode_span(sdk_span) ==
    [span_id |-> sdk_span.span_id,
     attributes |-> encode_attributes(sdk_span.attributes),
     events |-> encode_events(sdk_span.events),
     links |-> encode_links(sdk_span.links)]

\* The first loop of _encode_resource_spans, from span i on.
RECURSIVE sdk_resource_spans(_, _, _)
sdk_resource_spans(sdk_spans, i, groups) ==
    IF i > Len(sdk_spans)
    THEN groups
    ELSE sdk_resource_spans(
            sdk_spans, i + 1,
            DictInsert(groups,
                       sdk_spans[i].resource,
                       Or(sdk_spans[i].instrumentation_info, PyStr("None")),
                       encode_span(sdk_spans[i])))

encode_resource_spans(sdk_spans) ==
    EncodeResult(sdk_resource_spans(sdk_spans, 1, <<>>))

(***************************************************************************)
(* encoder/metric/protobuf.py                                              *)
(***************************************************************************)
\* INSTRUMENT_VALUE_TYPE_MAPPING with the two families exchanged.
INSTRUMENT_VALUE_TYPE_MAPPING_exchanged ==
    [t \in {"int", "float"} |->
        IF t = "float"
        THEN [sum |-> "int_sum", gauge |-> "int_gauge",
              data_point_class |-> "IntDataPoint"]
        ELSE [sum |-> "double_sum", gauge |-> "double_gauge",
              data_point_class |-> "DoubleDataPoint"]]

INSTRUMENT_VALUE_TYPE_MAPPING ==
    [t \in {"int", "float"} |->
        IF t = "int"
        THEN [sum |-> "int_sum", gauge |-> "int_gauge",
              data_point_class |-> "IntDataPoint"]
        ELSE [sum |-> "double_sum", gauge |-> "double_gauge",
              data_point_class |-> "DoubleDataPoint"]]

NoDataPoint ==
    [class |-> "", labels |-> <<>>, value |-> 0,
     start_time_unix_nano |-> 0, time_unix_nano |-> 0]

\* _get_data_points giving no data point where it raises.
get_data_points_empty(export_record, data_point_class, aggregation_temporality) ==
    LET aggregator == export_record.aggregator IN
      IF aggregator.type \in {"MinMaxSumCountAggregator",
                              "HistogramAggregator"}
      THEN [raised |-> "", data_points |-> <<>>]
      ELSE [raised |-> "",
            data_points |->
              << [class |-> data_point_class,
                  labels |-> export_record.labels,
                  value |-> IF aggregator.type = "ValueObserverAggregator"
                            THEN aggregator.checkpoint_last
                            ELSE aggregator.checkpoint,
                  start_time_unix_nano |->
                      IF aggregation_temporality = "CUMULATIVE"
                      THEN aggregator.first_timestamp
                      ELSE aggregator.initial_checkpoint_timestamp,
                  time_unix_nano |-> aggregator.last_update_timestamp] >>]

\* get_data_points with the start time of the cumulative case in every case.
get_data_points_first_timestamp(export_record, data_point_class, aggregation_temporality) ==
    LET aggregator == export_record.aggregator IN
      IF aggregator.type \in {"MinMaxSumCountAggregator",
                              "HistogramAggregator"}
      THEN [raised |-> "Exception", data_points |-> <<>>]
      ELSE [raised |-> "",
            data_points |->
              << [class |-> data_point_class,
                  labels |-> export_record.labels,
                  value |-> IF aggregator.type = "ValueObserverAggregator"
                            THEN aggregator.checkpoint_last
                            ELSE aggregator.checkpoint,
                  start_time_unix_nano |-> aggregator.first_timestamp,
                  time_unix_nano |-> aggregator.last_update_timestamp] >>]

\* _get_data_points: the list of one data point, or the exception.
get_data_points(export_record, data_point_class, aggregation_temporality) ==
    LET aggregator == export_record.aggregator IN
      IF aggregator.type \in {"MinMaxSumCountAggregator",
                              "HistogramAggregator"}
      THEN [raised |-> "Exception", data_points |-> <<>>]
      ELSE [raised |-> "",
            data_points |->
              << [class |-> data_point_class,
                  labels |-> export_record.labels,
                  value |-> IF aggregator.type = "ValueObserverAggregator"
                            THEN aggregator.checkpoint_last
                            ELSE aggregator.checkpoint,
                  start_time_unix_nano |->
                      IF aggregation_temporality = "CUMULATIVE"
                      THEN aggregator.first_timestamp
                      ELSE aggregator.initial_checkpoint_timestamp,
                  time_unix_nano |-> aggregator.last_update_timestamp] >>]

\* _encode_metric: status "ok" with the Metric, "None" when the record is
\* skipped, or the exception of _get_data_points.
MetricResult(status, name, argument, temporality, monotonic, points) ==
    [status |-> status,
     metric |-> [name |-> name, data |-> argument,
                 aggregation_temporality |-> temporality,
                 is_monotonic |-> monotonic,
                 data_points |-> points]]

encode_metric(sdk_export_record) ==
    LET instrument == sdk_export_record.instrument
        value_type_mapping == INSTRUMENT_VALUE_TYPE_MAPPING[instrument.value_type]
        points(temporality) ==
            get_data_points(sdk_export_record,
                            value_type_mapping.data_point_class, temporality)
        sum(monotonic) ==
            LET p == points("CUMULATIVE") IN
              IF p.raised # ""
              THEN MetricResult(p.raised, instrument.name, "", "", FALSE, <<>>)
              ELSE MetricResult("ok", instrument.name, value_type_mapping.sum,
                                "CUMULATIVE", monotonic, p.data_points)
    IN
      CASE instrument.type = "Counter" -> sum(TRUE)
        [] instrument.type = "UpDownCounter" -> sum(FALSE)
        [] instrument.type = "SumObserver" -> sum(TRUE)
        [] instrument.type = "UpDownSumObserver" -> sum(FALSE)
        [] instrument.type = "ValueObserver" ->
             LET p == points("DELTA") IN
               IF p.raised # ""
               THEN MetricResult(p.raised, instrument.name, "", "", FALSE, <<>>)
               ELSE MetricResult("ok", instrument.name,
                                 value_type_mapping.gauge, "", FALSE,
                                 p.data_points)
        [] OTHER -> MetricResult("None", instrument.name, "", "", FALSE, <<>>)

\* sdk_resource_metrics with a skipped record ending the loop.
RECURSIVE sdk_resource_metrics_break(_, _, _)
sdk_resource_metrics_break(sdk_export_records, i, groups) ==
    IF i > Len(sdk_export_records)
    THEN [raised |-> "", groups |-> groups]
    ELSE LET sdk_export_record == sdk_export_records[i]
             pb2_metric == encode_metric(sdk_export_record)
         IN
           IF pb2_metric.status = "None"
           THEN [raised |-> "", groups |-> groups]
           ELSE IF pb2_metric.status # "ok"
           THEN [raised |-> pb2_metric.status, groups |-> <<>>]
           ELSE sdk_resource_metrics_break(
                   sdk_export_records, i + 1,
                   DictInsert(groups,
                              sdk_export_record.resource,
                              Or(sdk_export_record.instrument.instrumentation_info,
                                 PyNone),
                              pb2_metric.metric))

\* The first loop of _encode_resource_metrics, from record i on: the dict
\* built, or the exception that ended the loop.
RECURSIVE sdk_resource_metrics(_, _, _)
sdk_resource_metrics(sdk_export_records, i, groups) ==
    IF i > Len(sdk_export_records)
    THEN [raised |-> "", groups |-> groups]
    ELSE LET sdk_export_record == sdk_export_records[i]
             pb2_metric == encode_metric(sdk_export_record)
         IN
           IF pb2_metric.status = "None"
           THEN sdk_resource_metrics(sdk_export_records, i + 1, groups)
           ELSE IF pb2_metric.status # "ok"
           THEN [raised |-> pb2_metric.status, groups |-> <<>>]
           ELSE sdk_resource_metrics(
                   sdk_export_records, i + 1,
                   DictInsert(groups,
                              sdk_export_record.resource,
                              Or(sdk_export_record.instrument.instrumentation_info,
                                 PyNone),
                              pb2_metric.metric))

encode_resource_metrics(sdk_export_records) ==
    LET first == sdk_resource_metrics(sdk_export_records, 1, <<>>) IN
      IF first.raised # ""
      THEN [raised |-> first.raised, nodes |-> <<>>]
      ELSE EncodeResult(first.groups)

(***************************************************************************)
(* The encoders as operations: encode is called on a batch.  An encoder    *)
(* keeps nothing from one call to the next (encode is a static method of   *)
(* a class without fields), so a behaviour holds one call.                 *)
(***************************************************************************)
NoOutput == [raised |-> "", nodes |-> <<>>]

EncInit ==
    /\ enc_kind = "none"
    /\ enc_input = <<>>
    /\ enc_output = NoOutput

SpanProtobufEncoder_encode ==
    /\ enc_kind = "none"
    /\ \E sdk_spans \in SpanBatches(MaxBatch)
                        \cup {SpanBatch(<<s>>) : s \in AttributeSpanShapes} :
         /\ enc_kind' = "span"
         /\ enc_input' = sdk_spans
         /\ enc_output' = encode_resource_spans(sdk_spans)
    /\ UNCHANGED <<gvars, evars, hvars>>
    /\ UNCHANGED zvars

MetricProtobufEncoder_encode ==
    /\ enc_kind = "none"
    /\ \E sdk_metrics \in MetricBatches(MaxBatch)
                          \cup {MetricBatch(<<s>>) :
                                   s \in MetricShapes(BatchMetricKinds,
                                                      {ResourceC})} :
         /\ enc_kind' = "metric"
         /\ enc_input' = sdk_metrics
         /\ enc_output' = encode_resource_metrics(sdk_metrics)
    /\ UNCHANGED <<gvars, evars, hvars>>
    /\ UNCHANGED zvars

NextEncode ==
    \/ SpanProtobufEncoder_encode
    \/ MetricProtobufEncoder_encode

(***************************************************************************)
(* Python dicts of str to str, as functions; None apart.                   *)
(***************************************************************************)
EmptyDict == [k \in {} |-> ""]

DictSet(d, key, value) ==
    [k \in DOMAIN d \cup {key} |-> IF k = key THEN value ELSE d[k]]

\* {**a, **b}
DictMerge(a, b) ==
    [k \in DOMAIN a \cup DOMAIN b |-> IF k \in DOMAIN b THEN b[k] ELSE a[k]]

NoHeaders == [none |-> TRUE, dict |-> EmptyDict]

Headers(d) == [none |-> FALSE, dict |-> d]

(***************************************************************************)
(* gzip and zlib, for byte strings as sequences of numbers: a header, the  *)
(* runs of the data (length, byte), and a trailer with a checksum of the   *)
(* data (and, for gzip, its length).                                       *)
(***************************************************************************)
Bytes == {0, 1}

Payloads == UNION { [1..n -> Bytes] : n \in 0..MaxPayload }

RECURSIVE RunLength(_, _)
RunLength(data, i) ==
    IF i < Len(data) /\ data[i + 1] = data[i]
    THEN 1 + RunLength(data, i + 1)
    ELSE 1

RECURSIVE Deflate(_)
Deflate(data) ==
    IF data = <<>>
    THEN <<>>
    ELSE LET n == RunLength(data, 1) IN
           <<n, data[1]>> \o Deflate(SubSeq(data, n + 1, Len(data)))

RECURSIVE Inflate(_)
Inflate(runs) ==
    IF Len(runs) < 2
    THEN <<>>
    ELSE [j \in 1..runs[1] |-> runs[2]]
         \o Inflate(SubSeq(runs, 3, Len(runs)))

RECURSIVE Checksum(_)
Checksum(data) ==
    IF data = <<>> THEN 1
    ELSE (data[Len(data)] + 2 * Checksum(SubSeq(data, 1, Len(data) - 1))) % 251

\* gzip.GzipFile(fileobj, mode="w").write(data), then getvalue()
gzip_compress(data) ==
    <<31, 139>> \o Deflate(data) \o <<Checksum(data), Len(data)>>

\* zlib.compress(data)
zlib_compress(data) ==
    <<120, 156>> \o Deflate(data) \o <<Checksum(data)>>

BadData == [ok |-> FALSE, data |-> <<>>]

gzip_decompress(body) ==
    IF Len(body) < 4 \/ body[1] # 31 \/ body[2] # 139
    THEN BadData
    ELSE LET data == Inflate(SubSeq(body, 3, Len(body) - 2)) IN
           IF Deflate(data) = SubSeq(body, 3, Len(body) - 2)
              /\ body[Len(body) - 1] = Checksum(data)
              /\ body[Len(body)] = Len(data)
           THEN [ok |-> TRUE, data |-> data]
           ELSE BadData

zlib_decompress(body) ==
    IF Len(body) < 3 \/ body[1] # 120 \/ body[2] # 156
    THEN BadData
    ELSE LET data == Inflate(SubSeq(body, 3, Len(body) - 1)) IN
           IF Deflate(data) = SubSeq(body, 3, Len(body) - 1)
              /\ body[Len(body)] = Checksum(data)
           THEN [ok |-> TRUE, data |-> data]
           ELSE BadData

(***************************************************************************)
(* sender/http.py: HttpSender.                                             *)
(***************************************************************************)
\* What requests.post can do: return a response, or raise.
HttpStatusCodes == {200, 201, 202, 204, 404, 503}

PostOutcomes ==
    [kind : {"response"}, status_code : HttpStatusCodes, text : {"body"}]
    \cup
    { [kind |-> "raised", status_code |-> 0, text |-> "ConnectionError"] }

NoPostOutcome == [kind |-> "none", status_code |-> 0, text |-> ""]

NoLog == [level |-> "", status_code |-> 0, text |-> ""]

NoArgs == [serialized_spans |-> <<>>, content_type |-> ""]

\* HttpSender.__init__
HttpSender_init(endpoint, insecure, cert_file, headers, timeout, compression) ==
    [endpoint |-> endpoint, insecure |-> insecure, cert_file |-> cert_file,
     headers |-> headers, timeout |-> timeout, compression |-> compression]

NoSender == HttpSender_init("", FALSE, "", NoHeaders, 0, "")

\* post_args["headers"]: the configured headers, Content-Type, and the
\* Content-Encoding of the compression.
post_headers(self, content_type) ==
    LET merged == DictMerge(self.headers.dict,
                            [k \in {"Content-Type"} |-> content_type])
    IN  IF self.compression = "gzip"
        THEN DictSet(merged, "Content-Encoding", "gzip")
        ELSE IF self.compression = "deflate"
             THEN DictSet(merged, "Content-Encoding", "deflate")
             ELSE merged

\* post_args["data"]; in post_args, a timeout of 0 and a verify of "" stand
\* for the absent key.
post_data_deflate_as_gzip(self, serialized_spans) ==
    IF self.compression \in {"gzip", "deflate"}
    THEN gzip_compress(serialized_spans)
    ELSE serialized_spans

post_data(self, serialized_spans) ==
    IF self.compression = "gzip"
    THEN gzip_compress(serialized_spans)
    ELSE IF self.compression = "deflate"
         THEN zlib_compress(serialized_spans)
         ELSE serialized_spans

post_args(self, serialized_spans, content_type) ==
    [headers |-> post_headers(self, content_type),
     timeout |-> self.timeout,
     verify |-> IF ~self.insecure /\ self.cert_file # ""
                THEN self.cert_file ELSE "",
     data |-> post_data(self, serialized_spans)]

\* The requests.post calls of one send call.
send_posts(args, outcome) == <<args>>

\* post_result.status_code in (200, 202)
success_2xx(status_code) == status_code \in 200..299

success(status_code) == status_code \in {200, 202}

\* HttpSender.send as a function of the sender, the arguments and what the
\* network does: the posts made, and the value returned with the error
\* logged, or the exception raised.
HttpSender_send_result(self, serialized_spans, content_type, outcome) ==
    IF self.headers.none
    THEN [raised |-> "TypeError", posts |-> <<>>, result |-> FALSE,
          log |-> NoLog]
    ELSE LET args == post_args(self, serialized_spans, content_type) IN
           IF outcome.kind = "raised"
           THEN [raised |-> outcome.text, posts |-> send_posts(args, outcome),
                 result |-> FALSE, log |-> NoLog]
           ELSE [raised |-> "", posts |-> send_posts(args, outcome),
                 result |-> success(outcome.status_code),
                 log |-> IF success(outcome.status_code)
                         THEN NoLog
                         ELSE [level |-> "ERROR",
                               status_code |-> outcome.status_code,
                               text |-> outcome.text]]

ResultName(r) ==
    IF r.raised # "" THEN r.raised ELSE IF r.result THEN "True" ELSE "False"

HttpInit ==
    /\ h_self = NoSender
    /\ h_args = NoArgs
    /\ h_outcome = NoPostOutcome
    /\ h_posts = <<>>
    /\ h_result = "none"
    /\ h_log = NoLog

\* The effect of a send call on the sender's variables.
HttpSent(serialized_spans, content_type, outcome, r) ==
    /\ h_args' = [serialized_spans |-> serialized_spans,
                  content_type |-> content_type]
    /\ h_outcome' = IF r.posts = <<>> THEN NoPostOutcome ELSE outcome
    /\ h_posts' = r.posts
    /\ h_result' = ResultName(r)
    /\ h_log' = r.log
    /\ UNCHANGED h_self

\* send is called on the sender the exporter built.
HttpSender_send ==
    /\ e_state = "ready"
    /\ e_protocol = "http/protobuf"
    /\ \E serialized_spans \in Payloads,
          content_type \in {"application/x-protobuf", "application/json"},
          outcome \in PostOutcomes :
         HttpSent(serialized_spans, content_type, outcome,
                  HttpSender_send_result(h_self, serialized_spans,
                                         content_type, outcome))
    /\ UNCHANGED <<gvars, encvars, evars>>
    /\ UNCHANGED zvars

(***************************************************************************)
(* exporter/otlp/__init__.py: OTLPExporter.                                *)
(***************************************************************************)
DEFAULT_ENDPOINT == "localhost:4317"
DEFAULT_PROTOCOL == "grpc"
DEFAULT_INSECURE == FALSE
DEFAULT_COMPRESSION == "none"
DEFAULT_TIMEOUT == 10

\* A headers argument or environment value: None, a dict (its items), or a
\* str (its comma-separated parts, each split at "=").
NoneHeaders == [type |-> "NoneType", items |-> <<>>]

DictHeaders(items) == [type |-> "dict", items |-> items]

StrHeaders(parts) == [type |-> "str", items |-> parts]

\* bool(x)
HeadersTruthy(x) ==
    \/ x.type = "dict" /\ x.items # <<>>
    \/ x.type = "str" /\ x.items # << <<"">> >>

RECURSIVE DictFromItems(_, _, _)
DictFromItems(items, i, d) ==
    IF i > Len(items)
    THEN d
    ELSE DictFromItems(items, i + 1,
                       IF Len(items[i]) = 2
                       THEN DictSet(d, items[i][1], items[i][2])
                       ELSE d)

\* _parse_headers
parse_headers(headers_input) ==
    IF headers_input.type = "dict"
    THEN Headers(DictFromItems(headers_input.items, 1, EmptyDict))
    ELSE IF headers_input.type = "str"
         THEN LET headers == DictFromItems(headers_input.items, 1, EmptyDict)
              IN  IF DOMAIN headers = {} THEN NoHeaders ELSE Headers(headers)
         ELSE NoHeaders

\* The environment: env[scope][setting], scope "SPAN", "METRIC" or "BASE";
\* "" (0 for a timeout, None for headers) is an unset variable.
EnvScope(endpoint, protocol, insecure, certificate, headers, timeout, compression) ==
    [ENDPOINT |-> endpoint, PROTOCOL |-> protocol, INSECURE |-> insecure,
     CERTIFICATE |-> certificate, HEADERS |-> headers, TIMEOUT |-> timeout,
     COMPRESSION |-> compression]

UnsetScope == EnvScope("", "", "", "", NoneHeaders, 0, "")

Env(span, metric, base) == [SPAN |-> span, METRIC |-> metric, BASE |-> base]

\* a or b or c, for str values
StrOr(a, b) == IF a # "" THEN a ELSE b

IntOr(a, b) == IF a # 0 THEN a ELSE b

HeadersOr(a, b) == IF HeadersTruthy(a) THEN a ELSE b

\* _get_env_or_default_protocol, _get_env_or_default_compression: the enum
\* member of the value, "ValueError" for a value that names none.
EnumOf(value, members) == IF value \in members THEN value ELSE "ValueError"

get_env_or_default_protocol(type_name, env) ==
    IF env[type_name].PROTOCOL # ""
    THEN EnumOf(env[type_name].PROTOCOL, {"grpc", "http/protobuf"})
    ELSE IF env.BASE.PROTOCOL # ""
         THEN EnumOf(env.BASE.PROTOCOL, {"grpc", "http/protobuf"})
         ELSE DEFAULT_PROTOCOL

get_env_or_default_compression(type_name, env) ==
    IF env[type_name].COMPRESSION # ""
    THEN EnumOf(env[type_name].COMPRESSION, {"deflate", "gzip", "none"})
    ELSE IF env.BASE.COMPRESSION # ""
         THEN EnumOf(env.BASE.COMPRESSION, {"deflate", "gzip", "none"})
         ELSE DEFAULT_COMPRESSION

\* _get_env_or_default_insecure (the value is lower-cased first)
get_env_or_default_insecure(type_name, env) ==
    LET env_val == StrOr(env[type_name].INSECURE, env.BASE.INSECURE) IN
      IF env_val # ""
      THEN IF env_val \in {"false", "False"} THEN FALSE ELSE TRUE
      ELSE DEFAULT_INSECURE

\* The certificate files that can be read.
ReadableFiles == {"fixtures/service.crt", "os/env/span.crt"}

\* GrpcSender.__init__: _create_channel raises ValueError in secure mode
\* without a certificate file that can be read.
GrpcSender_init_raises(insecure, cert_file) ==
    ~insecure /\ (cert_file = "" \/ cert_file \notin ReadableFiles)

\* The arguments of __init__: "" is None for a str (a None and an empty
\* str are both false), 0 for the timeout, "None" for insecure.
CtorArgs(endpoint, protocol, insecure, cert_file, headers, timeout, compression) ==
    [endpoint |-> endpoint, protocol |-> protocol, insecure |-> insecure,
     cert_file |-> cert_file, headers |-> headers, timeout |-> timeout,
     compression |-> compression]

\* OTLPExporter.__init__: the exception raised ("" for none), the protocol
\* and the arguments handed to the sender.
OTLPExporter_init_result(exporter_type, args, env) ==
    LET type_name == exporter_type
        endpoint == StrOr(args.endpoint,
                      StrOr(env[type_name].ENDPOINT,
                        StrOr(env.BASE.ENDPOINT, DEFAULT_ENDPOINT)))
        protocol == IF args.protocol # "" THEN args.protocol
                    ELSE get_env_or_default_protocol(type_name, env)
        insecure == IF args.insecure = "None"
                    THEN get_env_or_default_insecure(type_name, env)
                    ELSE args.insecure = "True"
        cert_file == IF insecure THEN ""
                     ELSE StrOr(args.cert_file,
                            StrOr(env[type_name].CERTIFICATE,
                                  env.BASE.CERTIFICATE))
        headers == parse_headers(
                      HeadersOr(args.headers,
                        HeadersOr(env[type_name].HEADERS, env.BASE.HEADERS)))
        timeout == IntOr(args.timeout,
                     IntOr(env[type_name].TIMEOUT,
                       IntOr(env.BASE.TIMEOUT, DEFAULT_TIMEOUT)))
        compression == IF args.compression # "" THEN args.compression
                       ELSE get_env_or_default_compression(type_name, env)
        sender == HttpSender_init(endpoint, insecure, cert_file, headers,
                                  timeout, compression)
    IN
      IF protocol = "ValueError" \/ compression = "ValueError"
      THEN [raised |-> "ValueError", protocol |-> "", sender |-> NoSender]
      ELSE IF protocol = "grpc" /\ GrpcSender_init_raises(insecure, cert_file)
      THEN [raised |-> "ValueError", protocol |-> "", sender |-> NoSender]
      ELSE [raised |-> "", protocol |-> protocol, sender |-> sender]

\* The constructor calls of the model.
HeaderInputs ==
    { NoneHeaders,
      DictHeaders(<<>>),
      DictHeaders(<< <<"x-key", "v1">> >>),
      DictHeaders(<< <<"Content-Type", "text/plain">>,
                     <<"Content-Encoding", "br">> >>),
      StrHeaders(<< <<"testHeader1", "value1">>, <<"testHeader2", "value2">> >>),
      StrHeaders(<< <<"x-key", "v1">>, <<"x-key", "v2">>, <<"bad">> >>),
      StrHeaders(<< <<"a", "b", "c">> >>),
      StrHeaders(<< <<"">> >>) }

NoArgsGiven == CtorArgs("", "", "None", "", NoneHeaders, 0, "")

EmptyEnv == Env(UnsetScope, UnsetScope, UnsetScope)

BaseEnv ==
    Env(UnsetScope, UnsetScope,
        EnvScope("os.env.base", "http/protobuf", "true", "os/env/base.crt",
                 StrHeaders(<< <<"osenv", "base">> >>), 300, "gzip"))

SpanEnv ==
    Env(EnvScope("os.env.span", "grpc", "false", "os/env/span.crt",
                 StrHeaders(<< <<"osenv", "span">> >>), 400, "deflate"),
        UnsetScope, BaseEnv.BASE)

MetricEnv ==
    Env(UnsetScope,
        EnvScope("os.env.metric", "http/protobuf", "maybe", "os/env/metric.crt",
                 StrHeaders(<< <<"osenv", "metric">> >>), 500, "bogus"),
        UnsetScope)

\* Variables of both exporter types and of the base are set.
FullEnv == Env(SpanEnv.SPAN, MetricEnv.METRIC, BaseEnv.BASE)

CtorInputs ==
    \* an HTTP sender with every kind of headers and compression
    [exporter_type : {"SPAN", "METRIC"},
     args : {CtorArgs("", "http/protobuf", "True", "", h, 0, c) :
               h \in HeaderInputs, c \in {"", "none", "gzip", "deflate"}},
     env : {EmptyEnv}]
    \cup
    \* either sender, secure or not, with or without a certificate
    [exporter_type : {"SPAN", "METRIC"},
     args : {CtorArgs("test.endpoint.com:46484", p, i, f,
                      DictHeaders(<< <<"x-key", "v1">> >>), 2, "gzip") :
               p \in {"grpc", "http/protobuf"},
               i \in {"True", "False"},
               f \in {"", "fixtures/service.crt", "missing.crt"}},
     env : {EmptyEnv}]
    \cup
    \* the settings left to the environment
    [exporter_type : {"SPAN", "METRIC"},
     args : {NoArgsGiven, CtorArgs("", "", "True", "", NoneHeaders, 0, "")},
     env : {EmptyEnv, BaseEnv, SpanEnv, MetricEnv}]
    \cup
    \* the settings given as arguments and in the environment
    [exporter_type : {"SPAN", "METRIC"},
     args : {CtorArgs("test.endpoint.com:46484", "grpc", "False",
                      "fixtures/service.crt",
                      StrHeaders(<< <<"testHeader1", "value1">>,
                                    <<"testHeader2", "value2">> >>),
                      2, "gzip"),
             CtorArgs("test.endpoint.com:46484", "http/protobuf", "True",
                      "fixtures/service.crt", DictHeaders(<<>>), 2, "none"),
             CtorArgs("", "", "False", "", NoneHeaders, 0, "none")},
     env : {BaseEnv, SpanEnv, MetricEnv, FullEnv}]

ExporterInit ==
    /\ e_state = "none"
    /\ e_type = ""
    /\ e_protocol = ""
    /\ e_sender = NoSender
    /\ e_given = [args |-> NoArgsGiven, env |-> EmptyEnv]
    /\ e_pc = "idle"
    /\ e_result = "none"

OTLPExporter_init ==
    /\ e_state = "none"
    /\ \E in \in CtorInputs :
         LET r == OTLPExporter_init_result(in.exporter_type, in.args, in.env)
         IN  /\ e_state' = IF r.raised # "" THEN r.raised ELSE "ready"
             /\ e_type' = in.exporter_type
             /\ e_protocol' = r.protocol
             /\ e_sender' = r.sender
             /\ e_given' = [args |-> in.args, env |-> in.env]
             /\ h_self' = IF r.protocol = "http/protobuf"
                          THEN r.sender ELSE NoSender
    /\ UNCHANGED <<e_pc, e_result>>
    /\ UNCHANGED <<h_args, h_outcome, h_posts, h_result, h_log>>
    /\ UNCHANGED <<gvars, encvars>>
    /\ UNCHANGED zvars

\* SerializeToString of an encoded request, as a sequence of numbers: a
\* tag for each resource node and each library node, and for each record a
\* tag and the id of the record.
RECURSIVE SerializeRecords(_, _, _)
SerializeRecords(records, j, kind) ==
    IF j > Len(records)
    THEN <<>>
    ELSE <<3, IF kind = "SPAN" THEN records[j].span_id ELSE records[j].name>>
         \o SerializeRecords(records, j + 1, kind)

RECURSIVE SerializeLibraries(_, _, _)
SerializeLibraries(libraries, k, kind) ==
    IF k > Len(libraries)
    THEN <<>>
    ELSE <<2>> \o SerializeRecords(libraries[k].records, 1, kind)
         \o SerializeLibraries(libraries, k + 1, kind)

RECURSIVE SerializeNodes(_, _, _)
SerializeNodes(nodes, r, kind) ==
    IF r > Len(nodes)
    THEN <<>>
    ELSE <<1>> \o SerializeLibraries(nodes[r].libraries, 1, kind)
         \o SerializeNodes(nodes, r + 1, kind)

\* ProtobufEncoder.content_type
ProtobufEncoder_content_type == "application/x-protobuf"

\* The batches handed to export.
ExportMetricKinds ==
    BatchMetricKinds
    \cup { [instrument |-> "Counter", value_type |-> "int",
            aggregator |-> "MinMaxSumCountAggregator"],
           [instrument |-> "UpDownSumObserver", value_type |-> "float",
            aggregator |-> "LastValueAggregator"] }

ExportBatches(exporter_type) ==
    IF exporter_type = "SPAN"
    THEN SpanBatches(MaxExportBatch)
    ELSE UNION { {MetricBatch(f) :
                    f \in [1..n -> MetricShapes(ExportMetricKinds,
                                                 {ResourceB})]} :
                 n \in 0..MaxExportBatch }

\* self._encoder.encode(sdk_data)
OTLPExporter_encode(exporter_type, sdk_data) ==
    IF exporter_type = "SPAN"
    THEN encode_resource_spans(sdk_data)
    ELSE encode_resource_metrics(sdk_data)

\* SpanExportResult or MetricsExportResult of what send returned
export_result(send_result) == IF send_result THEN "SUCCESS" ELSE "FAILURE"

\* export is called.  The batch is encoded; an exception of the encoder
\* leaves export.  A gRPC sender then runs its send loop; an HTTP sender
\* serializes, posts once and export returns (or the exception leaves it).
\* A behaviour holds one export call.
OTLPExporter_export ==
    /\ e_state = "ready"
    /\ e_pc = "idle"
    /\ e_result = "none"
    /\ \E sdk_data \in ExportBatches(e_type) :
         LET encoded == OTLPExporter_encode(e_type, sdk_data) IN
           /\ enc_kind' = IF e_type = "SPAN" THEN "span" ELSE "metric"
           /\ enc_input' = sdk_data
           /\ enc_output' = encoded
           /\ IF encoded.raised # ""
              THEN /\ e_result' = encoded.raised
                   /\ UNCHANGED <<e_pc, gvars, hvars>>
              ELSE IF e_protocol = "grpc"
              THEN /\ GrpcSender_send_enter
                   /\ e_pc' = "sending"
                   /\ UNCHANGED <<e_result, hvars>>
              ELSE \E outcome \in PostOutcomes :
                     LET serialized == SerializeNodes(encoded.nodes, 1, e_type)
                         r == HttpSender_send_result(h_self, serialized,
                                ProtobufEncoder_content_type, outcome)
                     IN  /\ HttpSent(serialized, ProtobufEncoder_content_type,
                                     outcome, r)
                         /\ e_result' = IF r.raised # "" THEN r.raised
                                        ELSE export_result(r.result)
                         /\ UNCHANGED <<e_pc, gvars>>
    /\ UNCHANGED <<e_state, e_type, e_protocol, e_sender, e_given>>
    /\ UNCHANGED zvars

\* The gRPC sender's send returned: export returns its result.
OTLPExporter_export_return ==
    /\ e_pc = "sending"
    /\ g_pc = "idle"
    /\ e_pc' = "idle"
    /\ e_result' = export_result(g_result = "True")
    /\ UNCHANGED <<e_state, e_type, e_protocol, e_sender, e_given>>
    /\ UNCHANGED <<gvars, encvars, hvars>>
    /\ UNCHANGED zvars

(***************************************************************************)
(* Zipkin: non-negative integers of any width, as the set of the positions *)
(* of their 1 bits (position 0 is the least significant bit).              *)
(***************************************************************************)
SetMax(S) == CHOOSE x \in S : \A y \in S : y <= x

\* format(n, "b"): the binary digits, most significant first; "0" for 0.
format_b(n) ==
    IF n = {} THEN <<0>>
    ELSE LET len == SetMax(n) + 1
         IN  [j \in 1..len |-> IF (len - j) \in n THEN 1 ELSE 0]

\* int(bits, 2)
int_2(bits) == {Len(bits) - j : j \in {i \in 1..Len(bits) : bits[i] = 1}}

\* A slice index of Python, negative counting from the end, clamped.
SliceIndex(len, i) ==
    IF i < 0 THEN (IF len + i < 0 THEN 0 ELSE len + i)
    ELSE (IF i > len THEN len ELSE i)

\* bits[start:stop]
Slice(bits, start, stop) ==
    SubSeq(bits, SliceIndex(Len(bits), start) + 1,
           SliceIndex(Len(bits), stop))

\* bits[start:]
SliceFrom(bits, start) ==
    SubSeq(bits, SliceIndex(Len(bits), start) + 1, Len(bits))

\* encoded_trace_id_high, or None.
NoHigh == [none |-> TRUE, value |-> {}]

High(n) == [none |-> FALSE, value |-> n]

SPAN_ID_WARNING == "Span id truncated to fit into Thrift"

TRACE_ID_WARNING == "Trace id truncated to fit into Thrift"

\* ThriftEncoder.encode_span_id: the value returned and the warnings logged.
encode_span_id_64_bits(span_id) ==
    LET bits == format_b(span_id)
    IN  IF Len(bits) < 65
        THEN [value |-> span_id, log |-> <<>>]
        ELSE [value |-> int_2(SliceFrom(bits, -63)),
              log |-> <<SPAN_ID_WARNING>>]

encode_span_id(span_id) ==
    LET bits == format_b(span_id)
    IN  IF Len(bits) < 64
        THEN [value |-> span_id, log |-> <<>>]
        ELSE [value |-> int_2(SliceFrom(bits, -63)),
              log |-> <<SPAN_ID_WARNING>>]

\* ThriftEncoder.encode_trace_id: the pair returned and the warnings logged.
encode_trace_id_low_62(trace_id) ==
    LET bits == format_b(trace_id)
        bits_length == Len(bits)
        encoded_trace_id == int_2(SliceFrom(bits, -62))
    IN  IF bits_length > 63
        THEN [trace_id |-> encoded_trace_id,
              trace_id_high |-> High(int_2(Slice(bits, -126, -63))),
              log |-> IF bits_length > 126 THEN <<TRACE_ID_WARNING>>
                      ELSE <<>>]
        ELSE [trace_id |-> encoded_trace_id, trace_id_high |-> NoHigh,
              log |-> <<>>]

encode_trace_id(trace_id) ==
    LET bits == format_b(trace_id)
        bits_length == Len(bits)
        encoded_trace_id == int_2(SliceFrom(bits, -63))
    IN  IF bits_length > 63
        THEN [trace_id |-> encoded_trace_id,
              trace_id_high |-> High(int_2(Slice(bits, -126, -63))),
              log |-> IF bits_length > 126 THEN <<TRACE_ID_WARNING>>
                      ELSE <<>>]
        ELSE [trace_id |-> encoded_trace_id, trace_id_high |-> NoHigh,
              log |-> <<>>]

\* The ids encoded: every combination of the bits around the 63-bit and the
\* 126-bit boundaries.
SpanIdBits == {0, 1, 61, 62, 63, 64}

SpanIds == SUBSET SpanIdBits

TraceIdBits == {0, 1, 62, 63, 64, 125, 126, 127}

TraceIds == SUBSET TraceIdBits

(***************************************************************************)
(* Zipkin: tag values.  A str is the sequence of its characters.           *)
(***************************************************************************)
TagValue(type, chars, number, fraction, flag) ==
    [type |-> type, chars |-> chars, number |-> number,
     fraction |-> fraction, flag |-> flag]

TagStr(chars) == TagValue("str", chars, 0, 0, FALSE)

TagInt(n) == TagValue("int", <<>>, n, 0, FALSE)

TagBool(b) == TagValue("bool", <<>>, 0, 0, b)

\* A float with one decimal: number.fraction
TagFloat(n, f) == TagValue("float", <<>>, n, f, FALSE)

\* A value that is neither a number nor a str.
TagList == TagValue("list", <<>>, 0, 0, FALSE)

Digit(n) == <<"0", "1", "2", "3", "4", "5", "6", "7", "8", "9">>[n + 1]

RECURSIVE Digits(_)
Digits(n) ==
    IF n < 10 THEN <<Digit(n)>>
    ELSE Append(Digits(n \div 10), Digit(n % 10))

\* str(value), for an int, a bool or a float.
str(value) ==
    CASE value.type = "int" ->
            IF value.number < 0 THEN <<"-">> \o Digits(0 - value.number)
            ELSE Digits(value.number)
      [] value.type = "bool" ->
            IF value.flag THEN <<"T", "r", "u", "e">>
            ELSE <<"F", "a", "l", "s", "e">>
      [] value.type = "float" ->
            Digits(value.number) \o <<".">> \o Digits(value.fraction)

\* A str of the given length, whose characters differ along it.
StrOfLen(len) == [j \in 1..len |-> Digit(j % 10)]

DEFAULT_MAX_TAG_VALUE_LENGTH == 128

\* The max_tag_value_length argument of the constructor; None when absent.
NoLength == [none |-> TRUE, value |-> 0]

Length(n) == [none |-> FALSE, value |-> n]

\* Encoder.__init__: max_tag_value_length or DEFAULT_MAX_TAG_VALUE_LENGTH
Encoder_init_max_tag_value_length(max_tag_value_length) ==
    IF max_tag_value_length.none \/ max_tag_value_length.value = 0
    THEN DEFAULT_MAX_TAG_VALUE_LENGTH
    ELSE max_tag_value_length.value

\* value[:n], for n > 0
Prefix(value, n) == SubSeq(value, 1, SliceIndex(Len(value), n))

IsSerializable(attribute_value) ==
    attribute_value.type \in {"int", "bool", "float", "str"}

\* One turn of the loop of _extract_tags_from_dict: the tag stored.
extract_tag(max_tag_value_length, attribute_value) ==
    LET value == IF attribute_value.type = "str" THEN attribute_value.chars
                 ELSE str(attribute_value)
    IN  IF max_tag_value_length > 0
        THEN Prefix(value, max_tag_value_length)
        ELSE value

\* tags_dict: None, or a dict of tag values.
NoTags == [none |-> TRUE, dict |-> EmptyDict]

Tags(d) == [none |-> FALSE, dict |-> d]

\* Encoder._extract_tags_from_dict: the tags returned and the warnings
\* logged, one for each value that is skipped.
extract_tags_from_dict(max_tag_value_length, tags_dict) ==
    IF tags_dict.none \/ DOMAIN tags_dict.dict = {}
    THEN [tags |-> EmptyDict, warnings |-> {}]
    ELSE LET kept == {k \in DOMAIN tags_dict.dict :
                        IsSerializable(tags_dict.dict[k])}
         IN  [tags |-> [k \in kept |->
                          extract_tag(max_tag_value_length,
                                      tags_dict.dict[k])],
              warnings |-> DOMAIN tags_dict.dict \ kept]

\* The lengths configured and the tag values encoded.
ConfiguredLengths ==
    {NoLength, Length(0), Length(-1), Length(-128), Length(1), Length(3),
     Length(50), Length(128), Length(129), Length(300)}

TagValues ==
    {TagStr(StrOfLen(n)) : n \in {0, 2, 50, 127, 128, 129, 200}}
        \cup {TagInt(7), TagInt(12345), TagInt(-12345), TagBool(TRUE),
              TagBool(FALSE), TagFloat(12, 5), TagList}

TagDicts ==
    {NoTags, Tags(EmptyDict)}
        \cup {Tags(DictSet(EmptyDict, "k1", v)) : v \in TagValues}
        \cup {Tags(DictSet(DictSet(EmptyDict, "k1", v), "k2",
                           TagStr(StrOfLen(200)))) :
                 v \in {TagList, TagInt(12345), TagStr(StrOfLen(129))}}

(***************************************************************************)
(* Zipkin: the tags and the binary annotations of a span.                  *)
(***************************************************************************)
\* span.instrumentation_info and span.status, or None; a description, or
\* None.
NoInfo == [none |-> TRUE, name |-> <<>>, version |-> <<>>]

Info(name, version) == [none |-> FALSE, name |-> name, version |-> version]

NoDescription == [none |-> TRUE, chars |-> <<>>]

Description(chars) == [none |-> FALSE, chars |-> chars]

NoStatus == [none |-> TRUE, status_code |-> 0, description |-> NoDescription]

Status(status_code, description) ==
    [none |-> FALSE, status_code |-> status_code, description |-> description]

\* A span: attributes and resource.attributes are tag dicts (None for a
\* span without resource).
ZipkinSpan(attributes, resource, instrumentation_info, status) ==
    [attributes |-> attributes, resource |-> resource,
     instrumentation_info |-> instrumentation_info, status |-> status]

\* The tags set for the instrumentation info and for the status.
info_tags(span) ==
    IF span.instrumentation_info.none
    THEN EmptyDict
    ELSE DictSet(DictSet(EmptyDict, "otel.instrumentation_library.name",
                         span.instrumentation_info.name),
                 "otel.instrumentation_library.version",
                 span.instrumentation_info.version)

status_tags(span) ==
    IF span.status.none
    THEN EmptyDict
    ELSE LET code == DictSet(EmptyDict, "otel.status_code",
                             Digits(span.status.status_code))
         IN  IF span.status.description.none
             THEN code
             ELSE DictSet(code, "otel.status_description",
                          span.status.description.chars)

\* Encoder._extract_tags_from_span
extract_tags_from_span(max_tag_value_length, span) ==
    LET attribute_tags ==
            extract_tags_from_dict(max_tag_value_length, span.attributes)
        resource_tags ==
            IF span.resource.none
            THEN [tags |-> EmptyDict, warnings |-> {}]
            ELSE extract_tags_from_dict(max_tag_value_length, span.resource)
    IN  [tags |-> DictMerge(DictMerge(DictMerge(attribute_tags.tags,
                                                resource_tags.tags),
                                      info_tags(span)),
                            status_tags(span)),
         warnings |-> Cardinality(attribute_tags.warnings)
                          + Cardinality(resource_tags.warnings)]

\* The items of a dict as a list of key and value.  The model does not
\* keep the insertion order of a dict: the items come in some fixed order.
RECURSIVE Items(_)
Items(dict) ==
    IF DOMAIN dict = {}
    THEN <<>>
    ELSE LET key == CHOOSE k \in DOMAIN dict : TRUE
         IN  <<[key |-> key, value |-> dict[key]]>>
                 \o Items([k \in DOMAIN dict \ {key} |-> dict[k]])

\* ThriftEncoder._extract_binary_annotations (encoder/thrift): an entry
\* for each tag of the span, then the entries appended for the
\* instrumentation info and for the status.
TruncatedItems(max_tag_value_length, items) ==
    [i \in 1..Len(items) |->
        [key |-> items[i].key,
         value |-> IF max_tag_value_length > 0
                   THEN Prefix(items[i].value, max_tag_value_length)
                   ELSE items[i].value]]

extract_binary_annotations(max_tag_value_length, span) ==
    TruncatedItems(max_tag_value_length,
                   Items(extract_tags_from_span(max_tag_value_length,
                                                span).tags))
        \o (IF span.instrumentation_info.none THEN <<>>
            ELSE <<[key |-> "otel.instrumentation_library.name",
                    value |-> span.instrumentation_info.name],
                   [key |-> "otel.instrumentation_library.version",
                    value |-> span.instrumentation_info.version]>>)
        \o (IF span.status.none THEN <<>>
            ELSE <<[key |-> "otel.status_code",
                    value |-> Digits(span.status.status_code)]>>
                 \o (IF span.status.description.none THEN <<>>
                     ELSE <<[key |-> "otel.status_description",
                             value |-> span.status.description.chars]>>))

\* The spans encoded.
NoSpan == ZipkinSpan(NoTags, NoTags, NoInfo, NoStatus)

ZipkinSpans ==
    {ZipkinSpan(a, r, i, s) :
        a \in {NoTags,
               Tags(DictSet(DictSet(EmptyDict, "key_string",
                                    TagStr(StrOfLen(200))),
                            "key_bool", TagBool(FALSE)))},
        r \in {NoTags, Tags(EmptyDict),
               Tags(DictSet(DictSet(EmptyDict, "key_resource",
                                    TagStr(StrOfLen(13))),
                            "key_string", TagStr(StrOfLen(5))))},
        i \in {NoInfo, Info(<<"n", "a", "m", "e">>, StrOfLen(7))},
        s \in {NoStatus, Status(0, NoDescription),
               Status(2, Description(StrOfLen(19)))}}

(***************************************************************************)
(* Zipkin: annotations.                                                    *)
(***************************************************************************)
\* Encoder._nsec_to_usec_round: (nsec + 500) // 10 ** 3
nsec_to_usec_floor(nsec) == nsec \div 1000

nsec_to_usec_round(nsec) == (nsec + 500) \div 1000

ZipkinEvent(name, timestamp, attributes) ==
    [name |-> name, timestamp |-> timestamp, attributes |-> attributes]

\* The attributes of an annotation: a str is cut to the maximum length,
\* any other value is kept as it is.
annotation_attrs(max_tag_value_length, attributes) ==
    [key \in DOMAIN attributes |->
        IF attributes[key].type = "str" /\ max_tag_value_length > 0
        THEN TagStr(Prefix(attributes[key].chars, max_tag_value_length))
        ELSE attributes[key]]

\* Encoder._extract_annotations_from_events: None for no events; the
\* value of an annotation is the JSON text of {event.name: attrs}, kept
\* here as the name and the attrs.
NoAnnotations == [none |-> TRUE, items |-> <<>>]

extract_annotations_from_events(max_tag_value_length, events) ==
    IF events = <<>>
    THEN NoAnnotations
    ELSE [none |-> FALSE,
          items |-> [i \in 1..Len(events) |->
                       [timestamp |-> nsec_to_usec_round(events[i].timestamp),
                        value |-> [name |-> events[i].name,
                                   attrs |-> annotation_attrs(
                                                max_tag_value_length,
                                                events[i].attributes)]]]]

\* The timestamps converted, in nanoseconds, and the events of a span.
Timestamps ==
    {0, 1, 499, 500, 501, 999, 1000, 1001, 1499, 1500, 1501, 1999, 2000,
     2499, 2500, 123456499, 123456500}

EventAttributes ==
    DictSet(DictSet(EmptyDict, "key_string", TagStr(StrOfLen(200))),
            "key_int", TagInt(7))

EventLists ==
    {<<>>}
        \cup {<<ZipkinEvent("event0", t, EventAttributes)>> : t \in Timestamps}
        \cup {<<ZipkinEvent("event0", 1499, EmptyDict),
                ZipkinEvent("event1", 1500, EventAttributes)>>}

(***************************************************************************)
(* Zipkin: the calls.                                                      *)
(***************************************************************************)
NoEncoder == [constructed |-> FALSE, max_tag_value_length |-> 0]

NoCall ==
    [method |-> "none", id |-> {}, tags_dict |-> NoTags, nsec |-> 0,
     events |-> <<>>, span |-> NoSpan]

NoReturn ==
    [value |-> {}, trace_id_high |-> NoHigh, tags |-> EmptyDict, usec |-> 0,
     annotations |-> NoAnnotations, binary_annotations |-> <<>>]

ZipkinInit ==
    /\ z_config = NoLength
    /\ z_self = NoEncoder
    /\ z_call = NoCall
    /\ z_return = NoReturn
    /\ z_log = <<>>

\* Encoder.__init__
Encoder_init ==
    /\ ~z_self.constructed
    /\ \E max_tag_value_length \in ConfiguredLengths :
         /\ z_config' = max_tag_value_length
         /\ z_self' =
              [constructed |-> TRUE,
               max_tag_value_length |->
                   Encoder_init_max_tag_value_length(max_tag_value_length)]
    /\ UNCHANGED <<z_call, z_return, z_log>>
    /\ UNCHANGED <<gvars, encvars, evars, hvars>>

\* Encoder._extract_tags_from_dict, on the encoder built.
Encoder_extract_tags_from_dict ==
    /\ z_self.constructed
    /\ z_call.method = "none"
    /\ \E tags_dict \in TagDicts :
         LET r == extract_tags_from_dict(z_self.max_tag_value_length,
                                         tags_dict)
         IN  /\ z_call' = [NoCall EXCEPT !.method = "_extract_tags_from_dict",
                                         !.tags_dict = tags_dict]
             /\ z_return' = [NoReturn EXCEPT !.tags = r.tags]
             /\ z_log' = [j \in 1..Cardinality(r.warnings) |->
                            "Could not serialize tag"]
    /\ UNCHANGED <<z_config, z_self>>
    /\ UNCHANGED <<gvars, encvars, evars, hvars>>

\* ThriftEncoder.encode_span_id, a static method.
ThriftEncoder_encode_span_id ==
    /\ z_call.method = "none"
    /\ \E span_id \in SpanIds :
         LET r == encode_span_id(span_id)
         IN  /\ z_call' = [NoCall EXCEPT !.method = "encode_span_id",
                                         !.id = span_id]
             /\ z_return' = [NoReturn EXCEPT !.value = r.value]
             /\ z_log' = r.log
    /\ UNCHANGED <<z_config, z_self>>
    /\ UNCHANGED <<gvars, encvars, evars, hvars>>

\* ThriftEncoder.encode_trace_id, a static method.
ThriftEncoder_encode_trace_id ==
    /\ z_call.method = "none"
    /\ \E trace_id \in TraceIds :
         LET r == encode_trace_id(trace_id)
         IN  /\ z_call' = [NoCall EXCEPT !.method = "encode_trace_id",
                                         !.id = trace_id]
             /\ z_return' = [NoReturn EXCEPT
                                !.value = r.trace_id,
                                !.trace_id_high = r.trace_id_high]
             /\ z_log' = r.log
    /\ UNCHANGED <<z_config, z_self>>
    /\ UNCHANGED <<gvars, encvars, evars, hvars>>

\* Encoder._nsec_to_usec_round, a static method.
Encoder_nsec_to_usec_round ==
    /\ z_call.method = "none"
    /\ \E nsec \in Timestamps :
         /\ z_call' = [NoCall EXCEPT !.method = "_nsec_to_usec_round",
                                     !.nsec = nsec]
         /\ z_return' = [NoReturn EXCEPT !.usec = nsec_to_usec_round(nsec)]
    /\ UNCHANGED <<z_config, z_self, z_log>>
    /\ UNCHANGED <<gvars, encvars, evars, hvars>>

\* Encoder._extract_annotations_from_events, on the encoder built.
Encoder_extract_annotations_from_events ==
    /\ z_self.constructed
    /\ z_call.method = "none"
    /\ \E events \in EventLists :
         /\ z_call' = [NoCall EXCEPT
                          !.method = "_extract_annotations_from_events",
                          !.events = events]
         /\ z_return' = [NoReturn EXCEPT
                            !.annotations =
                                extract_annotations_from_events(
                                    z_self.max_tag_value_length, events)]
    /\ UNCHANGED <<z_config, z_self, z_log>>
    /\ UNCHANGED <<gvars, encvars, evars, hvars>>

\* Encoder._extract_tags_from_span, on the encoder built.
Encoder_extract_tags_from_span ==
    /\ z_self.constructed
    /\ z_call.method = "none"
    /\ \E span \in ZipkinSpans :
         LET r == extract_tags_from_span(z_self.max_tag_value_length, span)
         IN  /\ z_call' = [NoCall EXCEPT !.method = "_extract_tags_from_span",
                                         !.span = span]
             /\ z_return' = [NoReturn EXCEPT !.tags = r.tags]
             /\ z_log' = [j \in 1..r.warnings |-> "Could not serialize tag"]
    /\ UNCHANGED <<z_config, z_self>>
    /\ UNCHANGED <<gvars, encvars, evars, hvars>>

\* ThriftEncoder._extract_binary_annotations, on the encoder built.
ThriftEncoder_extract_binary_annotations ==
    /\ z_self.constructed
    /\ z_call.method = "none"
    /\ \E span \in ZipkinSpans :
         /\ z_call' = [NoCall EXCEPT
                          !.method = "_extract_binary_annotations",
                          !.span = span]
         /\ z_return' = [NoReturn EXCEPT
                            !.binary_annotations =
                                extract_binary_annotations(
                                    z_self.max_tag_value_length, span)]
         /\ z_log' = [j \in 1..extract_tags_from_span(
                                   z_self.max_tag_value_length,
                                   span).warnings |->
                         "Could not serialize tag"]
    /\ UNCHANGED <<z_config, z_self>>
    /\ UNCHANGED <<gvars, encvars, evars, hvars>>

NextZipkin ==
    \/ Encoder_init
    \/ Encoder_extract_tags_from_span
    \/ ThriftEncoder_extract_binary_annotations
    \/ Encoder_extract_tags_from_dict
    \/ Encoder_nsec_to_usec_round
    \/ Encoder_extract_annotations_from_events
    \/ ThriftEncoder_encode_span_id
    \/ ThriftEncoder_encode_trace_id

(***************************************************************************)
(* Specifications.                                                         *)
(***************************************************************************)
Init == GrpcInit /\ EncInit /\ ExporterInit /\ HttpInit /\ ZipkinInit

\* Calls of GrpcSender.send on one sender.
SpecGrpc == Init /\ [][NextGrpc]_vars

\* The thread that runs send keeps running: the RPC returns or raises
\* within its timeout and sleep returns.
FairSpecGrpc == SpecGrpc /\ WF_vars(GrpcStep)

\* Calls of the two encoders.
SpecEncode == Init /\ [][NextEncode]_vars

\* An exporter is built, and send is called on its HTTP sender.
NextHttp ==
    \/ OTLPExporter_init
    \/ HttpSender_send

SpecHttp == Init /\ [][NextHttp]_vars

\* An exporter is built, and export is called on it.
NextExport ==
    \/ OTLPExporter_init
    \/ OTLPExporter_export
    \/ OTLPExporter_export_return
    \/ GrpcStep

SpecExport == Init /\ [][NextExport]_vars

\* An encoder of the Zipkin exporter is built and one of its methods called.
SpecZipkin == Init /\ [][NextZipkin]_vars

\* send is called on the gRPC sender the exporter built.
OTLPExporter_GrpcSender_send ==
    /\ e_state = "ready"
    /\ e_protocol = "grpc"
    /\ GrpcSender_send

\* An exporter is built, and send is called on its sender time after time.
NextSenders ==
    \/ OTLPExporter_init
    \/ OTLPExporter_GrpcSender_send
    \/ GrpcStep
    \/ HttpSender_send

SpecSenders == Init /\ [][NextSenders]_vars

(***************************************************************************)
(* Properties of GrpcSender.send.                                          *)
(***************************************************************************)
GrpcReturned == g_pc = "idle" /\ g_result # "none"

LastRetryable ==
    /\ g_lastOutcome.kind = "RpcError"
    /\ g_lastOutcome.code \in RETRYABLE_ERROR_CODES

\* C1: every send call returns, whatever the server answers; a call whose
\* attempts all failed with a retryable status (with or without a
\* retry-delay hint) returns False once the generator yields the 900 s
\* ceiling.
C1_SendTerminates ==
    /\ [](GrpcReturned /\ LastRetryable =>
            g_result = "False" /\ g_delay = Seconds(expo_max_value))
    /\ (g_pc # "idle") ~> (g_pc = "idle")

C1_Witness ==
    /\ GrpcReturned
    /\ g_result = "False"
    /\ LastRetryable
    /\ g_lastOutcome.retry_info.present
    /\ g_attempts = 10

\* C2: send returns True exactly when its last Export call returned or
\* raised an RpcError with status OK; a status that is neither OK nor
\* retryable makes send return False at once: no sleep, no further attempt.
C2_SendResult ==
    /\ GrpcReturned =>
         (g_result = "True" <=>
            \/ g_lastOutcome.kind = "returned"
            \/ g_lastOutcome.kind = "RpcError" /\ g_lastOutcome.code = "OK")
    /\ ( /\ g_lastOutcome.kind = "RpcError"
         /\ g_lastOutcome.code \notin RETRYABLE_ERROR_CODES \cup {"OK"} )
       => (g_pc = "idle" /\ g_result = "False" /\ ~g_slept)

C2_Witness ==
    /\ GrpcReturned
    /\ g_result = "True"
    /\ g_lastOutcome.kind = "RpcError"
    /\ g_lastOutcome.code = "OK"
    /\ g_attempts = 3

\* C3: the sleep before the next attempt lasts exactly the hinted duration
\* when the retryable error carries a retry-delay hint, and exactly the
\* backoff value computed for that attempt (2^(k-1) s for attempt k) when
\* it carries none.
C3_SleepDuration ==
    g_slept =>
        g_lastSleep =
            IF g_lastOutcome.retry_info.present
            THEN [seconds |-> g_lastOutcome.retry_info.seconds,
                  nanos |-> g_lastOutcome.retry_info.nanos]
            ELSE [seconds |-> 2 ^ (g_attempts - 1), nanos |-> 0]

C3_Witness ==
    /\ g_slept
    /\ g_attempts = 3
    /\ g_lastOutcome.retry_info.present
    /\ g_lastSleep = [seconds |-> 1, nanos |-> 500000000]

\* C4: send never returns right after a sleep: every retry wait is followed
\* by another Export attempt before the call returns.
C4_SleepThenRetry == GrpcReturned => ~g_slept

(***************************************************************************)
(* Properties of OTLPExporter.export.                                      *)
(***************************************************************************)
\* C5: export ends in a SUCCESS or FAILURE result for every batch and every
\* transport outcome; no exception leaves it.
C5_ExportNeverRaises == e_result \in {"none", "SUCCESS", "FAILURE"}

(***************************************************************************)
(* Properties of HttpSender.send.                                          *)
(***************************************************************************)
HttpCalled == h_result # "none"

HttpResponded == h_outcome.kind = "response"

\* C6: when requests.post returns a response, send returns true if and only
\* if the status code is 200 or 202; for any other status it returns false
\* and logs an error holding the status code and the response text.
C6_StatusDecidesResult ==
    HttpResponded =>
        /\ h_result \in {"True", "False"}
        /\ (h_result = "True") <=> (h_outcome.status_code \in {200, 202})
        /\ h_result = "False" =>
              h_log = [level |-> "ERROR",
                       status_code |-> h_outcome.status_code,
                       text |-> h_outcome.text]

C6_Witness ==
    /\ HttpResponded
    /\ h_outcome.status_code = 201
    /\ h_result = "False"
    /\ h_log = [level |-> "ERROR", status_code |-> 201, text |-> "body"]

\* C7: every send call issues exactly one POST.
C7_OnePostPerSend == HttpCalled => Len(h_posts) = 1

\* C8: the Content-Encoding header of a POST matches its body: with gzip
\* the header is gzip and the body gunzips to the payload, with deflate the
\* header is deflate and the body inflates to the payload, and otherwise
\* the body is the payload and the header is as the caller configured it
\* (absent when the caller configured none).
C8_EncodingMatchesBody ==
    \A p \in 1..Len(h_posts) :
        LET post == h_posts[p]
            payload == h_args.serialized_spans
            configured == h_self.headers.dict
        IN
          /\ h_self.compression = "gzip" =>
                /\ "Content-Encoding" \in DOMAIN post.headers
                /\ post.headers["Content-Encoding"] = "gzip"
                /\ gzip_decompress(post.data) = [ok |-> TRUE, data |-> payload]
          /\ h_self.compression = "deflate" =>
                /\ "Content-Encoding" \in DOMAIN post.headers
                /\ post.headers["Content-Encoding"] = "deflate"
                /\ zlib_decompress(post.data) = [ok |-> TRUE, data |-> payload]
          /\ h_self.compression \notin {"gzip", "deflate"} =>
                /\ post.data = payload
                /\ ("Content-Encoding" \in DOMAIN post.headers)
                      <=> ("Content-Encoding" \in DOMAIN configured)
                /\ "Content-Encoding" \in DOMAIN configured =>
                      post.headers["Content-Encoding"]
                          = configured["Content-Encoding"]

C8_Witness ==
    /\ Len(h_posts) = 1
    /\ h_self.compression = "deflate"
    /\ h_args.serialized_spans = <<1, 1>>
    /\ h_posts[1].data # h_args.serialized_spans
    /\ h_posts[1].headers["Content-Encoding"] = "deflate"
    /\ "Content-Encoding" \in DOMAIN h_self.headers.dict
    /\ h_self.headers.dict["Content-Encoding"] = "br"

\* C9: every send call on a sender the exporter built posts with a header
\* map holding every configured header and Content-Type equal to the
\* content_type argument, which wins over a configured Content-Type (and,
\* with a compression, the Content-Encoding it sets).
C9_PostedHeaders ==
    HttpCalled =>
        /\ Len(h_posts) >= 1
        /\ \A p \in 1..Len(h_posts) :
              LET posted == h_posts[p].headers
                  configured == h_self.headers.dict
              IN  /\ DOMAIN posted \ {"Content-Encoding"}
                        = (DOMAIN configured \cup {"Content-Type"})
                              \ {"Content-Encoding"}
                  /\ "Content-Encoding" \in DOMAIN configured =>
                        "Content-Encoding" \in DOMAIN posted
                  /\ posted["Content-Type"] = h_args.content_type
                  /\ \A k \in DOMAIN configured
                              \ {"Content-Type", "Content-Encoding"} :
                        posted[k] = configured[k]

(***************************************************************************)
(* Properties of the encoders' grouping.                                   *)
(***************************************************************************)
\* The records of the output, node by node, as the ids of the input
\* records they encode (span_id for a span, instrument name for a metric).
RecordId(pb2) == IF enc_kind = "span" THEN pb2.span_id ELSE pb2.name

RECURSIVE FlattenLibraries(_, _)
FlattenLibraries(libraries, k) ==
    IF k > Len(libraries)
    THEN <<>>
    ELSE [j \in 1..Len(libraries[k].records) |->
             RecordId(libraries[k].records[j])]
         \o FlattenLibraries(libraries, k + 1)

RECURSIVE FlattenNodes(_, _)
FlattenNodes(nodes, r) ==
    IF r > Len(nodes)
    THEN <<>>
    ELSE FlattenLibraries(nodes[r].libraries, 1) \o FlattenNodes(nodes, r + 1)

Occurrences(seq, x) == Cardinality({j \in 1..Len(seq) : seq[j] = x})

EncodeReturned == enc_kind # "none" /\ enc_output.raised = ""

\* The input records for which the encoder emits nothing: the metric
\* records whose instrument is a ValueRecorder.
Dropped(i) ==
    /\ enc_kind = "metric"
    /\ enc_input[i].instrument.type = "ValueRecorder"

UnequalResourcesApart ==
    \A r \in 1..Len(enc_output.nodes) :
        LET ids == FlattenLibraries(enc_output.nodes[r].libraries, 1) IN
          \A a, b \in 1..Len(ids) :
              Resource_eq(enc_input[ids[a]].resource,
                          enc_input[ids[b]].resource)

InputResource(i) == enc_input[i].resource

InputScope(i) ==
    IF enc_kind = "span"
    THEN enc_input[i].instrumentation_info
    ELSE enc_input[i].instrument.instrumentation_info

LibraryIds(r, k) ==
    [j \in 1..Len(enc_output.nodes[r].libraries[k].records) |->
        RecordId(enc_output.nodes[r].libraries[k].records[j])]

InLibrary(i, r, k) == \E j \in 1..Len(LibraryIds(r, k)) : LibraryIds(r, k)[j] = i

InNode(i, r) ==
    \E k \in 1..Len(enc_output.nodes[r].libraries) : InLibrary(i, r, k)

Emitted(i) == \E r \in 1..Len(enc_output.nodes) : InNode(i, r)

\* C11: in the output of one encode call no node is empty, two emitted
\* records with equal resources are under the same resource node, and two
\* with equal resources and equal scopes (an absent scope being a scope of
\* its own) are under the same scope node, adjacent in the input or not: so
\* there is one resource node per Resource value and, in it, one scope node
\* per scope value.
C11_OneGroupPerKey ==
    EncodeReturned =>
        /\ \A r \in 1..Len(enc_output.nodes) :
              /\ enc_output.nodes[r].libraries # <<>>
              /\ \A k \in 1..Len(enc_output.nodes[r].libraries) :
                    enc_output.nodes[r].libraries[k].records # <<>>
        /\ \A i, j \in 1..Len(enc_input) :
              Emitted(i) /\ Emitted(j)
              /\ Resource_eq(InputResource(i), InputResource(j)) =>
                  \A r \in 1..Len(enc_output.nodes) :
                      /\ InNode(i, r) <=> InNode(j, r)
                      /\ InputScope(i) = InputScope(j) =>
                            \A k \in 1..Len(enc_output.nodes[r].libraries) :
                                InLibrary(i, r, k) <=> InLibrary(j, r, k)

C11_Witness ==
    /\ EncodeReturned
    /\ enc_kind = "span"
    /\ Len(enc_input) = 3
    /\ InputResource(1) = ResourceA1
    /\ InputResource(2) = ResourceB
    /\ InputResource(3) = ResourceA2
    /\ InputScope(1) = InputScope(3)
    /\ Len(enc_output.nodes) = 2
    /\ LibraryIds(1, 1) = <<1, 3>>
    /\ LibraryIds(2, 1) = <<2>>

\* C12: a record without an instrumentation scope does not make encode
\* fail on its scope, and when it is emitted it sits under a scope node
\* whose name and version are empty.
C12_AbsentScopeEncoded ==
    \A i \in 1..Len(enc_input) :
        InputScope(i) = PyNone =>
            /\ enc_output.raised # "AttributeError"
            /\ EncodeReturned /\ ~Dropped(i) =>
                  \E r \in 1..Len(enc_output.nodes) :
                      \E k \in 1..Len(enc_output.nodes[r].libraries) :
                          LET library == enc_output.nodes[r].libraries[k]
                          IN  /\ InLibrary(i, r, k)
                              /\ library.instrumentation_library.name = ""
                              /\ library.instrumentation_library.version = ""

(***************************************************************************)
(* Properties of the metric encoder.                                       *)
(***************************************************************************)
\* The places of the records of the output: node, library, position.
RecordPlaces ==
    {p \in (1..Len(enc_output.nodes)) \X (1..MaxBatch + 1) \X (1..MaxBatch + 1) :
        /\ p[2] <= Len(enc_output.nodes[p[1]].libraries)
        /\ p[3] <= Len(enc_output.nodes[p[1]].libraries[p[2]].records)}

RecordAt(p) == enc_output.nodes[p[1]].libraries[p[2]].records[p[3]]

SumInstruments ==
    {"Counter", "UpDownCounter", "SumObserver", "UpDownSumObserver"}

UnsupportedAggregators == {"MinMaxSumCountAggregator", "HistogramAggregator"}

\* The records that make encode raise: a supported instrument with an
\* aggregator that has no data point.
Raising(i) ==
    /\ enc_kind = "metric"
    /\ enc_input[i].instrument.type \in SumInstruments \cup {"ValueObserver"}
    /\ enc_input[i].aggregator.type \in UnsupportedAggregators

\* C14: a metric record whose instrument is a value recorder, whatever its
\* aggregator, is not emitted and does not end the encode: when no other
\* record raises, encode returns and every other record is emitted.
C14_ValueRecorderSkipped ==
    enc_kind = "metric" /\ (\A i \in 1..Len(enc_input) : ~Raising(i)) =>
        /\ EncodeReturned
        /\ \A i \in 1..Len(enc_input) : Emitted(i) <=> ~Dropped(i)

C14_Witness ==
    /\ EncodeReturned
    /\ enc_kind = "metric"
    /\ Len(enc_input) = 3
    /\ Dropped(2)
    /\ enc_input[2].aggregator.type = "MinMaxSumCountAggregator"
    /\ Emitted(1) /\ ~Emitted(2) /\ Emitted(3)

\* C15: a metric record of a supported instrument whose aggregator is a
\* histogram or min-max-sum-count aggregator makes encode raise, and the
\* call emits nothing, the other records of the batch included.
C15_UnsupportedAggregatorRaises ==
    enc_kind = "metric" /\ (\E i \in 1..Len(enc_input) : Raising(i)) =>
        /\ enc_output.raised = "Exception"
        /\ enc_output.nodes = <<>>

C15_Witness ==
    /\ enc_kind = "metric"
    /\ Len(enc_input) = 3
    /\ ~Raising(1) /\ ~Dropped(1)
    /\ Raising(3)
    /\ enc_output = [raised |-> "Exception", nodes |-> <<>>]

(***************************************************************************)
(* Properties of the attribute encoding.                                   *)
(***************************************************************************)
EncodableTypes == {"bool", "str", "int", "float"}

\* The key-values of a dict without those whose value has no encoding.
Encodable(sdk_attributes) ==
    LET Keep(key) == sdk_attributes.attributes[key].type \in EncodableTypes
        keys == SelectSeq(sdk_attributes.order, Keep)
    IN  [j \in 1..Len(keys) |->
            [key |-> keys[j], value |-> sdk_attributes.attributes[keys[j]]]]

HasBadAttribute(sdk_attributes) ==
    \E j \in 1..Len(sdk_attributes.order) :
        sdk_attributes.attributes[sdk_attributes.order[j]].type
            \notin EncodableTypes

\* C16: an attribute of a span, an event, a link or a resource whose value
\* has no encoding is left out alone: the encoded collection holds every
\* other attribute, in order, every event and link is still there, and the
\* span (or the resource node) is emitted.
C16_BadAttributeOmitted ==
    EncodeReturned =>
        /\ \A r \in 1..Len(enc_output.nodes) :
              \E i \in 1..Len(enc_input) :
                  /\ InNode(i, r)
                  /\ enc_output.nodes[r].resource.attributes
                        = Encodable(InputResource(i))
        /\ enc_kind = "span" =>
              /\ \A i \in 1..Len(enc_input) : Emitted(i)
              /\ \A p \in RecordPlaces :
                    LET pb2_span == RecordAt(p)
                        sdk_span == enc_input[pb2_span.span_id]
                    IN  /\ pb2_span.attributes.items
                              = Encodable(sdk_span.attributes)
                        /\ Len(pb2_span.events.items) = Len(sdk_span.events)
                        /\ \A e \in 1..Len(sdk_span.events) :
                              pb2_span.events.items[e].attributes
                                  = Encodable(sdk_span.events[e].attributes)
                        /\ Len(pb2_span.links.items) = Len(sdk_span.links)
                        /\ \A l \in 1..Len(sdk_span.links) :
                              pb2_span.links.items[l].attributes
                                  = Encodable(sdk_span.links[l].attributes)

C16_Witness ==
    /\ EncodeReturned
    /\ enc_kind = "span"
    /\ Len(enc_input) = 1
    /\ HasBadAttribute(InputResource(1))
    /\ HasBadAttribute(enc_input[1].attributes)
    /\ Len(enc_input[1].events) = 2
    /\ HasBadAttribute(enc_input[1].events[2].attributes)
    /\ Len(enc_input[1].links) = 1
    /\ HasBadAttribute(enc_input[1].links[1].attributes)
    /\ Len(enc_output.nodes[1].resource.attributes) = 2
    /\ Len(RecordAt(<<1, 1, 1>>).attributes.items) = 2
    /\ RecordAt(<<1, 1, 1>>).attributes.items[2].key = "b"
    /\ RecordAt(<<1, 1, 1>>).events.items[2].attributes = <<>>
    /\ Len(RecordAt(<<1, 1, 1>>).links.items[1].attributes) = 2

(***************************************************************************)
(* Properties of the Zipkin Thrift encoder.                                *)
(***************************************************************************)
\* The low bits of an integer: n mod 2^width
LowBits(n, width) == {p \in n : p < width}

\* n < 2^width
Below(n, width) == \A p \in n : p < width

\* (high << 63) | low, an absent high counting as 0.
Reconstructed ==
    {p + 63 : p \in (IF z_return.trace_id_high.none THEN {}
                     ELSE z_return.trace_id_high.value)}
        \cup z_return.value

\* C17: the pair (low, high) returned by encode_trace_id gives back the
\* trace id as (high << 63) | low when the id is below 2^126, and the id
\* masked to its low 126 bits when the id is 2^126 or more.
C17_TraceIdRoundTrip ==
    z_call.method = "encode_trace_id" =>
        IF Below(z_call.id, 126)
        THEN Reconstructed = z_call.id
        ELSE Reconstructed = LowBits(z_call.id, 126)

\* A trace id of more than 63 and at most 126 bits was encoded, in two parts.
C17_Witness ==
    /\ z_call.method = "encode_trace_id"
    /\ z_call.id = {0, 63, 125}
    /\ ~z_return.trace_id_high.none
    /\ z_return.trace_id_high.value = {0, 62}
    /\ z_return.value = {0}

\* C18: encode_span_id returns a span id below 2^63 unchanged and logs
\* nothing; it returns the low 63 bits of a span id of 2^63 or more and logs
\* exactly one truncation warning; the span id 2^63 is encoded as 0.
C18_SpanIdEncoding ==
    z_call.method = "encode_span_id" =>
        /\ IF Below(z_call.id, 63)
           THEN z_return.value = z_call.id /\ z_log = <<>>
           ELSE /\ z_return.value = LowBits(z_call.id, 63)
                /\ z_log = <<SPAN_ID_WARNING>>
        /\ z_call.id = {63} => z_return.value = {} /\ Len(z_log) = 1

\* The span id 2^63 was encoded as 0, with one warning.
C18_Witness ==
    /\ z_call.method = "encode_span_id"
    /\ z_call.id = {63}
    /\ z_return.value = {}
    /\ Len(z_log) = 1

(***************************************************************************)
(* Properties of the tags of the Zipkin encoder.                           *)
(***************************************************************************)
\* The tag value at its full length.
WholeTag(attribute_value) ==
    IF attribute_value.type = "str" THEN attribute_value.chars
    ELSE str(attribute_value)

\* The tag values given that are kept as tags.
TagsGiven ==
    {k \in DOMAIN z_call.tags_dict.dict :
        IsSerializable(z_call.tags_dict.dict[k])}

\* C19: the maximum tag value length is 128 when none is configured; with
\* a configured length of 0 or less every tag value is kept at its full
\* length; with a configured length n > 0 every tag value is cut to its
\* first n characters.
C19_MaxTagValueLength ==
    /\ z_self.constructed /\ z_config.none =>
           z_self.max_tag_value_length = 128
    /\ z_call.method = "_extract_tags_from_dict" /\ ~z_call.tags_dict.none =>
           /\ DOMAIN z_return.tags = TagsGiven
           /\ \A k \in TagsGiven :
                LET whole == WholeTag(z_call.tags_dict.dict[k])
                    limit == IF z_config.none THEN 128 ELSE z_config.value
                IN  IF limit <= 0
                    THEN z_return.tags[k] = whole
                    ELSE z_return.tags[k] = Prefix(whole, limit)

(***************************************************************************)
(* Properties of the construction of the exporter in secure mode.          *)
(***************************************************************************)
\* The sender was asked for a secure connection and has no certificate
\* file that can be read.
SecureWithoutCertificate ==
    /\ ~e_sender.insecure
    /\ e_sender.cert_file \notin ReadableFiles

\* C20: an exporter in secure mode without a certificate file, or with one
\* that cannot be read, is not constructed, whichever the protocol, and an
\* exporter whose construction raised sends nothing.
C20_SecureNeedsCertificate ==
    /\ e_state = "ready" => ~SecureWithoutCertificate
    /\ e_state \notin {"none", "ready"} =>
           /\ h_posts = <<>>
           /\ g_attempts = 0

(***************************************************************************)
(* Properties of the settings of the exporter.                             *)
(***************************************************************************)
\* The first of: the argument when one is given, the variable of the type
\* of the exporter when it is set, the base variable when it is set, the
\* default.
FirstOf(given, argument, type_set, type_value, base_set, base_value, default) ==
    IF given THEN argument
    ELSE IF type_set THEN type_value
    ELSE IF base_set THEN base_value
    ELSE default

\* The value of an INSECURE variable.
EnvInsecure(value) == value \notin {"false", "False"}

OwnEnv == e_given.env[e_type]

BaseOfEnv == e_given.env.BASE

ExpectedInsecure ==
    FirstOf(e_given.args.insecure # "None", e_given.args.insecure = "True",
            OwnEnv.INSECURE # "", EnvInsecure(OwnEnv.INSECURE),
            BaseOfEnv.INSECURE # "", EnvInsecure(BaseOfEnv.INSECURE),
            DEFAULT_INSECURE)

\* C21: every setting handed to the sender is the constructor argument when
\* one is given, otherwise the variable of the exporter's own type,
\* otherwise the base variable, otherwise the default; the certificate is
\* None when insecure is true.
C21_SettingsPrecedence ==
    e_state = "ready" =>
        /\ e_sender.endpoint =
               FirstOf(e_given.args.endpoint # "", e_given.args.endpoint,
                       OwnEnv.ENDPOINT # "", OwnEnv.ENDPOINT,
                       BaseOfEnv.ENDPOINT # "", BaseOfEnv.ENDPOINT,
                       DEFAULT_ENDPOINT)
        /\ e_protocol =
               FirstOf(e_given.args.protocol # "", e_given.args.protocol,
                       OwnEnv.PROTOCOL # "", OwnEnv.PROTOCOL,
                       BaseOfEnv.PROTOCOL # "", BaseOfEnv.PROTOCOL,
                       DEFAULT_PROTOCOL)
        /\ e_sender.insecure = ExpectedInsecure
        /\ e_sender.cert_file =
               IF ExpectedInsecure THEN ""
               ELSE FirstOf(e_given.args.cert_file # "",
                            e_given.args.cert_file,
                            OwnEnv.CERTIFICATE # "", OwnEnv.CERTIFICATE,
                            BaseOfEnv.CERTIFICATE # "", BaseOfEnv.CERTIFICATE,
                            "")
        /\ e_sender.headers =
               parse_headers(
                   FirstOf(e_given.args.headers.type # "NoneType",
                           e_given.args.headers,
                           OwnEnv.HEADERS.type # "NoneType", OwnEnv.HEADERS,
                           BaseOfEnv.HEADERS.type # "NoneType",
                           BaseOfEnv.HEADERS,
                           NoneHeaders))
        /\ e_sender.timeout =
               FirstOf(e_given.args.timeout # 0, e_given.args.timeout,
                       OwnEnv.TIMEOUT # 0, OwnEnv.TIMEOUT,
                       BaseOfEnv.TIMEOUT # 0, BaseOfEnv.TIMEOUT,
                       DEFAULT_TIMEOUT)
        /\ e_sender.compression =
               FirstOf(e_given.args.compression # "",
                       e_given.args.compression,
                       OwnEnv.COMPRESSION # "", OwnEnv.COMPRESSION,
                       BaseOfEnv.COMPRESSION # "", BaseOfEnv.COMPRESSION,
                       DEFAULT_COMPRESSION)

(***************************************************************************)
(* Properties of the Zipkin timestamps.                                    *)
(***************************************************************************)
\* Rounding half up: a remainder of 500 ns or more counts as one more
\* microsecond.
RoundHalfUp(ns) == (ns \div 1000) + (IF ns % 1000 >= 500 THEN 1 ELSE 0)

\* C22: the conversion of nanoseconds to microseconds rounds half up (1500
\* gives 2, 1499 gives 1), and the timestamp of every annotation is the
\* conversion of the timestamp of its event.
C22_RoundHalfUp ==
    /\ z_call.method = "_nsec_to_usec_round" =>
           /\ z_return.usec = RoundHalfUp(z_call.nsec)
           /\ z_call.nsec = 1500 => z_return.usec = 2
           /\ z_call.nsec = 1499 => z_return.usec = 1
    /\ z_call.method = "_extract_annotations_from_events" =>
           /\ Len(z_return.annotations.items) = Len(z_call.events)
           /\ \A i \in 1..Len(z_call.events) :
                z_return.annotations.items[i].timestamp =
                    RoundHalfUp(z_call.events[i].timestamp)

\* The events at 1499 ns and 1500 ns gave annotations at 1 and 2 microseconds.
C22_Witness ==
    /\ z_call.method = "_extract_annotations_from_events"
    /\ Len(z_call.events) = 2
    /\ z_call.events[1].timestamp = 1499
    /\ z_call.events[2].timestamp = 1500
    /\ z_return.annotations.items[1].timestamp = 1
    /\ z_return.annotations.items[2].timestamp = 2

(***************************************************************************)
(* Properties of the backoff schedule of GrpcSender.send.                  *)
(***************************************************************************)
\* C23: the delay computed for the attempt after k failed ones is 2^k
\* seconds (1, 2, 4, ...), whether or not earlier sleeps of the call used a
\* hint; a computed delay that is slept is below 900 seconds; a call whose
\* first attempt fails with a retryable status and no hint and whose second
\* attempt succeeds sleeps once, for 1 second, and returns True.
C23_BackoffSchedule ==
    /\ g_pc = "try" => g_delay = Seconds(2 ^ g_attempts)
    /\ g_slept /\ ~g_lastOutcome.retry_info.present =>
           /\ g_lastSleep = Seconds(2 ^ (g_attempts - 1))
           /\ g_lastSleep.seconds < expo_max_value
    /\ (/\ GrpcReturned
        /\ g_attempts = 2
        /\ g_lastOutcome.kind = "returned"
        /\ ~g_hinted) =>
           /\ g_result = "True"
           /\ g_sleeps = 1
           /\ g_lastSleep = Seconds(1)

\* The first attempt failed with no hint, the call slept once and the
\* second attempt succeeded.
C23_Witness ==
    /\ GrpcReturned
    /\ g_attempts = 2
    /\ g_lastOutcome.kind = "returned"
    /\ ~g_hinted
    /\ g_sleeps = 1
    /\ g_result = "True"

\* C28: one send call makes at most 10 Export attempts, and the position in
\* the backoff schedule is the number of attempts made, whether or not a
\* sleep of the call used a hint: a hint adds no attempt and does not set
\* the schedule back.
C28_AttemptBudget ==
    /\ g_attempts <= 10
    /\ g_pc \in {"try", "sleep"} => g_sleeps < 10
    /\ g_pc = "try" => g_n = g_attempts + 1 /\ g_sleeps = g_attempts
    /\ g_pc = "sleep" => g_n = g_attempts

\* A call used hints, made its 10 attempts and returned False.
C28_Witness ==
    /\ GrpcReturned
    /\ g_hinted
    /\ g_attempts = 10
    /\ g_sleeps = 10
    /\ g_result = "False"

(***************************************************************************)
(* Properties of the order of the encoder output.                          *)
(***************************************************************************)
SetMin(S) == CHOOSE x \in S : \A y \in S : x <= y

\* The resource of a resource node and the scope of a scope node, taken
\* from their first record.
NodeResource(r) == InputResource(LibraryIds(r, 1)[1])

NodeScope(r, k) == InputScope(LibraryIds(r, k)[1])

\* The first input record with the resource of a node, and with the
\* resource and the scope of a scope node.
FirstSeenResource(r) ==
    SetMin({i \in 1..Len(enc_input) :
               Resource_eq(InputResource(i), NodeResource(r))})

FirstSeenScope(r, k) ==
    SetMin({i \in 1..Len(enc_input) :
               /\ Resource_eq(InputResource(i), NodeResource(r))
               /\ InputScope(i) = NodeScope(r, k)})

\* The first input record that is emitted under a node.
FirstEmittedResource(r) == SetMin({i \in 1..Len(enc_input) : InNode(i, r)})

FirstEmittedScope(r, k) ==
    SetMin({i \in 1..Len(enc_input) : InLibrary(i, r, k)})

\* The records of every scope node keep their input order.
RecordsInInputOrder ==
    \A r \in 1..Len(enc_output.nodes) :
        \A k \in 1..Len(enc_output.nodes[r].libraries) :
            \A a, b \in 1..Len(LibraryIds(r, k)) :
                a < b => LibraryIds(r, k)[a] < LibraryIds(r, k)[b]

\* C24 as stated: the resource nodes are in the order in which their
\* resources are first seen in the input, the scope nodes of a resource
\* node in the order in which their scopes are first seen for that
\* resource, and the records of a scope node in input order.
C24_FirstSeenOrder ==
    EncodeReturned =>
        /\ \A r1, r2 \in 1..Len(enc_output.nodes) :
              r1 < r2 => FirstSeenResource(r1) < FirstSeenResource(r2)
        /\ \A r \in 1..Len(enc_output.nodes) :
              \A k1, k2 \in 1..Len(enc_output.nodes[r].libraries) :
                  k1 < k2 => FirstSeenScope(r, k1) < FirstSeenScope(r, k2)
        /\ RecordsInInputOrder

\* C24 (amended): the same, with the order taken among the records that
\* are emitted: a resource or scope counts as seen at its first record
\* that is not dropped.
C24_FirstEmittedOrder ==
    EncodeReturned =>
        /\ \A r1, r2 \in 1..Len(enc_output.nodes) :
              r1 < r2 => FirstEmittedResource(r1) < FirstEmittedResource(r2)
        /\ \A r \in 1..Len(enc_output.nodes) :
              \A k1, k2 \in 1..Len(enc_output.nodes[r].libraries) :
                  k1 < k2 => FirstEmittedScope(r, k1) < FirstEmittedScope(r, k2)
        /\ RecordsInInputOrder

\* Three spans of resources B, A, A with scopes libA, libB, libA were
\* encoded: node B first, and in node A the scope libB before libA.
C24_Witness ==
    /\ EncodeReturned
    /\ enc_kind = "span"
    /\ Len(enc_input) = 3
    /\ InputResource(1) = ResourceB
    /\ InputResource(2) = ResourceA1
    /\ InputResource(3) = ResourceA2
    /\ InputScope(1) = InputScope(3)
    /\ InputScope(2) # InputScope(3)
    /\ Len(enc_output.nodes) = 2
    /\ LibraryIds(1, 1) = <<1>>
    /\ LibraryIds(2, 1) = <<2>>
    /\ LibraryIds(2, 2) = <<3>>

(***************************************************************************)
(* Properties of the data points of a metric.                              *)
(***************************************************************************)
\* The data point of an emitted metric has the times of the aggregator of
\* its record: the last update, and as start the first-seen time for the
\* instruments of the sum family and the time of the initial checkpoint
\* for a value observer.
DataPointTimes(pb2_metric) ==
    LET record == enc_input[pb2_metric.name]
        point == pb2_metric.data_points[1]
    IN  /\ Len(pb2_metric.data_points) = 1
        /\ point.time_unix_nano = record.aggregator.last_update_timestamp
        /\ point.start_time_unix_nano =
               IF record.instrument.type \in SumInstruments
               THEN record.aggregator.first_timestamp
               ELSE record.aggregator.initial_checkpoint_timestamp

\* C25 as stated: every emitted metric has exactly one data point, whose
\* value is the checkpoint of the aggregator, with these times.
C25_DataPointIsCheckpoint ==
    EncodeReturned /\ enc_kind = "metric" =>
        \A p \in RecordPlaces :
            /\ DataPointTimes(RecordAt(p))
            /\ RecordAt(p).data_points[1].value =
                   enc_input[RecordAt(p).name].aggregator.checkpoint

\* C25 (amended): the value is the checkpoint of the aggregator, and for a
\* ValueObserverAggregator, whose checkpoint holds several values, the last
\* value of the checkpoint.
C25_DataPoint ==
    EncodeReturned /\ enc_kind = "metric" =>
        \A p \in RecordPlaces :
            LET aggregator == enc_input[RecordAt(p).name].aggregator IN
              /\ DataPointTimes(RecordAt(p))
              /\ RecordAt(p).data_points[1].value =
                     IF aggregator.type = "ValueObserverAggregator"
                     THEN aggregator.checkpoint_last
                     ELSE aggregator.checkpoint

\* A value observer with a ValueObserverAggregator was encoded: the value
\* is the last value of the checkpoint and the start time that of the
\* initial checkpoint.
C25_Witness ==
    /\ EncodeReturned
    /\ enc_kind = "metric"
    /\ Len(enc_input) = 1
    /\ enc_input[1].instrument.type = "ValueObserver"
    /\ enc_input[1].aggregator.type = "ValueObserverAggregator"
    /\ RecordPlaces # {}
    /\ \A p \in RecordPlaces :
          /\ RecordAt(p).data_points[1].value = 7
          /\ RecordAt(p).data_points[1].start_time_unix_nano = 120
          /\ RecordAt(p).data_points[1].time_unix_nano = 150

(***************************************************************************)
(* Properties of the tags and binary annotations of a span.                *)
(***************************************************************************)
\* C26: with a maximum length n > 0, every value of the tag map extracted
\* from a span has at most n characters, whether it comes from the span
\* attributes, the resource attributes, the instrumentation info or the
\* status.
C26_TagsWithinMaximum ==
    (/\ z_call.method = "_extract_tags_from_span"
     /\ z_self.max_tag_value_length > 0) =>
        \A key \in DOMAIN z_return.tags :
            Len(z_return.tags[key]) <= z_self.max_tag_value_length

\* The entries of the binary annotations with a given key.
Entries(key) ==
    {i \in 1..Len(z_return.binary_annotations) :
        z_return.binary_annotations[i].key = key}

\* C30: the binary annotations of a span hold at most one entry per key:
\* exactly one otel.status_code (and at most one otel.status_description)
\* for a span with a status, exactly one otel.instrumentation_library.name
\* and one otel.instrumentation_library.version for a span with an
\* instrumentation info.
C30_OneAnnotationPerKey ==
    z_call.method = "_extract_binary_annotations" =>
        /\ \A i, j \in 1..Len(z_return.binary_annotations) :
              z_return.binary_annotations[i].key
                  = z_return.binary_annotations[j].key => i = j
        /\ ~z_call.span.status.none =>
              /\ Cardinality(Entries("otel.status_code")) = 1
              /\ Cardinality(Entries("otel.status_description")) <= 1
        /\ ~z_call.span.instrumentation_info.none =>
              /\ Cardinality(Entries("otel.instrumentation_library.name")) = 1
              /\ Cardinality(Entries("otel.instrumentation_library.version")) = 1

(***************************************************************************)
(* The service an export over gRPC goes to.                                *)
(***************************************************************************)
\* C29: a METRIC exporter over gRPC delivers its
\* ExportMetricsServiceRequest through the Export RPC of the metrics
\* service, never through the stub of the trace service.
C29_MetricsThroughMetricsService ==
    (/\ e_type = "METRIC"
     /\ e_protocol = "grpc"
     /\ g_rpc.request = "ExportMetricsServiceRequest") =>
        /\ g_rpc.stub = "MetricsServiceStub"
        /\ g_rpc.stub # "TraceServiceStub"

(***************************************************************************)
(* What a sender keeps from one send call to the next.                     *)
(***************************************************************************)
\* The sender as __init__ built it from the arguments and environment.
SenderBuilt == OTLPExporter_init_result(e_type, e_given.args, e_given.env).sender

\* C27: a sender carries nothing from one send call to the next but what
\* its construction made.  In every call of GrpcSender.send the delay
\* computed is the one of the attempts of this call (the first is the base
\* delay), the call gives up on the ceiling only after ten attempts, and
\* each Export call gets the headers and timeout of the sender, which is
\* as construction left it; HttpSender.send leaves the sender, and so its
\* header map, as construction left it, while the post carries
\* Content-Type.
C27_NothingKeptAcrossSends ==
    /\ g_pc = "try" => g_delay = Seconds(2 ^ g_attempts)
    /\ (g_pc = "idle" /\ g_result = "False" /\ g_slept) => g_attempts = 10
    /\ g_rpc.stub # "none" =>
          /\ g_rpc.metadata = e_sender.headers
          /\ g_rpc.timeout = e_sender.timeout
    /\ e_state = "ready" => e_sender = SenderBuilt
    /\ (e_state = "ready" /\ e_protocol = "http/protobuf") =>
          /\ h_self = SenderBuilt
          /\ \A i \in 1..Len(h_posts) :
                /\ "Content-Type" \in DOMAIN h_posts[i].headers
                /\ \A k \in DOMAIN h_self.headers.dict :
                      k \in DOMAIN h_posts[i].headers

\* The second send call on a gRPC sender ran through its whole schedule.
C27_Witness ==
    /\ e_state = "ready"
    /\ e_protocol = "grpc"
    /\ g_calls = 2
    /\ g_pc = "idle"
    /\ g_result = "False"
    /\ g_slept
    /\ g_attempts = 10

=============================================================================
